---------------------------- MODULE Spec2Model ----------------------------
(***************************************************************************)
(* Peer session registry (PeerManager), link quality monitor               *)
(* (LatencyMonitor), the parts of UIController and AudioManager they call, *)
(* of the browser DAW collaboration tool.                                  *)
(*                                                                         *)
(* Every browser page is a node that runs the same script.  The PeerJS     *)
(* objects (Peer, DataConnection, MediaConnection) are the environment:    *)
(* dc, mc and wire hold their state, and each of their events is one       *)
(* action whose body is the handler the script registered for it.          *)
(*                                                                         *)
(* PeerJS 1.4.7 (index.html, part_000:8) emits events with eventemitter3:  *)
(* a listener added while an event is being emitted is not called for that *)
(* emission, and DataConnection emits 'open' once.  close() on a           *)
(* connection emits 'close', synchronously, only if the connection was     *)
(* open.                                                                   *)
(***************************************************************************)
EXTENDS Integers, Sequences, FiniteSets, TLC

\* The pages.  A is the page whose user starts by creating a session, B and
\* C are pages whose users start by joining one.  A page's first Peer is
\* registered with the broker under the page's name.
Nodes == {"A", "B", "C"}
Creators == {"A"}
Joiners == {"B", "C"}

\* What a user may have typed into the session id field, character by
\* character.
Inputs == { << >>, <<" ">>, <<" ", "A">>, <<"C">> }

\* Bounds of the exploration.
MaxPings == 2        \* latency pings sent in one behaviour of Spec
MaxForce == 1        \* console calls of forcePingAll in one behaviour of Spec
MonPings == 12       \* latency pings sent in one behaviour of SpecMon
MaxInject == 1       \* foreign data messages a remote peer sends in SpecMon
MaxFlight == 2       \* messages in flight between two pages when a ping is sent in SpecMon
MaxChanges == 1      \* clicks on Change Device in one behaviour of SpecUI
MaxErrors == 1       \* 'error' events of connections and calls in one behaviour of SpecErr
MaxPeers == 2        \* Peer objects one page constructs in one behaviour of SpecUI or SpecErr
StatTicks == 4       \* timer callbacks of the getStats monitor in one behaviour of SpecStats
MaxIdLen == 2        \* characters of a peer id in SpecLink
DataPings == 2       \* latency pings sent in one behaviour of SpecData
CalcPings == 3       \* latency pings sent in one behaviour of SpecCalc
RollPings == 11      \* latency pings sent in one behaviour of SpecRoll
CrossPings == 2      \* latency pings sent in one behaviour of SpecCross
EchoPings == 2       \* latency pings that the peer sends in one behaviour of SpecEcho
UnloadPings == 1     \* latency pings sent in one behaviour of SpecUnload
IsoPings == 2        \* latency pings sent in one behaviour of SpecIso
UIPings == 1         \* latency pings sent in one behaviour of SpecUI or SpecErr

\* LatencyMonitor constructor: this.historyLength = 10
historyLength == 10


VARIABLES
    node,        \* node[n]: the script's objects on page n (see NodeInit)
    dc,          \* dc[<<n, p>>]: page n's DataConnection to peer p
    mc,          \* mc[<<n, p>>]: page n's MediaConnection to peer p
    wire,        \* wire[<<n, p>>]: data messages sent by n to p, not yet received
    timers,      \* timers[<<n, p>>]: callbacks and listeners attached to n's DataConnection to p
    pingSeq,     \* number of pings sent so far (the source of unique ping ids)
    budget       \* what is left of the exploration's budgets

vars == <<node, dc, mc, wire, timers, pingSeq, budget>>

Ends == {e \in Nodes \X Nodes : e[1] # e[2]}

-----------------------------------------------------------------------------
\* JavaScript objects used as maps: a function whose domain is the key set.

Has(obj, k) == k \in DOMAIN obj

Delete(obj, k) == [x \in DOMAIN obj \ {k} |-> obj[x]]

Put(obj, k, v) == [x \in DOMAIN obj \cup {k} |-> IF x = k THEN v ELSE obj[x]]

EmptyObj == [x \in {} |-> 0]

\* Math.round of the quotient a / b of non-negative integers (b > 0).
Round(a, b) == (2 * a + b) \div (2 * b)

Abs(x) == IF x < 0 THEN -x ELSE x

RECURSIVE SumSeq(_)
SumSeq(s) == IF s = << >> THEN 0 ELSE Head(s) + SumSeq(Tail(s))

RECURSIVE JitterSum(_)
JitterSum(s) ==
    IF Len(s) < 2 THEN 0 ELSE Abs(s[2] - s[1]) + JitterSum(Tail(s))

\* String.prototype.trim on a string of the characters above.
RECURSIVE trimStart(_)
trimStart(v) == IF v # << >> /\ Head(v) = " " THEN trimStart(Tail(v)) ELSE v

RECURSIVE trimEnd(_)
trimEnd(v) ==
    IF v # << >> /\ v[Len(v)] = " " THEN trimEnd(SubSeq(v, 1, Len(v) - 1)) ELSE v

trim(v) == trimEnd(trimStart(v))

-----------------------------------------------------------------------------
\* The query of a URL, as URL and URLSearchParams read and write it
\* (application/x-www-form-urlencoded).  A string is the sequence of its
\* characters.

JoinName == <<"j", "o", "i", "n">>

HexDigits == {"0", "2", "3", "5", "6", "B", "D"}

\* The character that the byte %h1h2 decodes to; "?" stands for every
\* character that no string of the model holds.
Byte(h1, h2) ==
    CASE h1 = "2" /\ h2 = "0" -> " "
      [] h1 = "2" /\ h2 = "5" -> "%"
      [] h1 = "2" /\ h2 = "6" -> "&"
      [] h1 = "2" /\ h2 = "B" -> "+"
      [] h1 = "3" /\ h2 = "D" -> "="
      [] OTHER -> "?"

\* Percent-decoding: %h1h2 is a byte, any other % stands for itself.
RECURSIVE percentDecode(_)
percentDecode(v) ==
    IF v = << >> THEN << >>
    ELSE IF v[1] = "%" /\ Len(v) >= 3 /\ v[2] \in HexDigits /\ v[3] \in HexDigits
         THEN <<Byte(v[2], v[3])>> \o percentDecode(SubSeq(v, 4, Len(v)))
         ELSE <<v[1]>> \o percentDecode(Tail(v))

\* The decoding of a name or a value: + is a blank, then percent-decoding.
formDecode(v) == percentDecode([i \in 1..Len(v) |-> IF v[i] = "+" THEN " " ELSE v[i]])

\* The encoding of a name or a value: a blank is +, letters and digits stand
\* for themselves, any other character is percent-encoded.
RECURSIVE formEncode(_)
formEncode(v) ==
    IF v = << >> THEN << >>
    ELSE (CASE v[1] = " " -> <<"+">>
            [] v[1] = "%" -> <<"%", "2", "5">>
            [] v[1] = "&" -> <<"%", "2", "6">>
            [] v[1] = "+" -> <<"%", "2", "B">>
            [] v[1] = "=" -> <<"%", "3", "D">>
            [] OTHER -> <<v[1]>>) \o formEncode(Tail(v))

\* The first place of the character c in v, 0 when there is none.
RECURSIVE IndexOf(_, _)
IndexOf(v, c) ==
    IF v = << >> THEN 0
    ELSE IF v[1] = c THEN 1
    ELSE LET i == IndexOf(Tail(v), c) IN IF i = 0 THEN 0 ELSE i + 1

\* The name-value pair of one segment of a query.
parsePair(seg) ==
    LET i == IndexOf(seg, "=")
    IN  IF i = 0
        THEN [name |-> formDecode(seg), value |-> << >>]
        ELSE [name  |-> formDecode(SubSeq(seg, 1, i - 1)),
              value |-> formDecode(SubSeq(seg, i + 1, Len(seg)))]

\* url.searchParams of the URL with query q: the pairs of its segments
\* between the &, empty segments left out.
RECURSIVE parseQuery(_)
parseQuery(q) ==
    IF q = << >> THEN << >>
    ELSE LET i    == IndexOf(q, "&")
             seg  == IF i = 0 THEN q ELSE SubSeq(q, 1, i - 1)
             rest == IF i = 0 THEN << >> ELSE SubSeq(q, i + 1, Len(q))
         IN  (IF seg = << >> THEN << >> ELSE <<parsePair(seg)>>) \o parseQuery(rest)

\* The query that url.toString() writes for the pairs l.
RECURSIVE serializeQuery(_)
serializeQuery(l) ==
    IF l = << >> THEN << >>
    ELSE formEncode(l[1].name) \o <<"=">> \o formEncode(l[1].value)
         \o (IF Len(l) > 1 THEN <<"&">> \o serializeQuery(Tail(l)) ELSE << >>)

\* searchParams.has(name)
searchParamsHas(l, name) == \E i \in 1..Len(l) : l[i].name = name

\* searchParams.get(name): the value of the first pair of that name, and ""
\* for null: the script only tests the result for being empty.
RECURSIVE searchParamsGet(_, _)
searchParamsGet(l, name) ==
    IF l = << >> THEN << >>
    ELSE IF l[1].name = name THEN l[1].value
    ELSE searchParamsGet(Tail(l), name)

\* searchParams.delete(name): every pair of that name is removed.
RECURSIVE searchParamsDelete(_, _)
searchParamsDelete(l, name) ==
    IF l = << >> THEN << >>
    ELSE (IF l[1].name = name THEN << >> ELSE <<l[1]>>) \o searchParamsDelete(Tail(l), name)

\* searchParams.set(name, value): the first pair of that name takes the
\* value and the others are removed; without one, the pair is appended.
searchParamsSet(l, name, value) ==
    IF ~searchParamsHas(l, name)
    THEN Append(l, [name |-> name, value |-> value])
    ELSE LET i == CHOOSE j \in 1..Len(l) :
                     l[j].name = name /\ \A k \in 1..(j - 1) : l[k].name # name
         IN  SubSeq(l, 1, i - 1) \o <<[name |-> name, value |-> value]>>
             \o searchParamsDelete(SubSeq(l, i + 1, Len(l)), name)

\* window.location.search.includes('join=')
RECURSIVE includesJoin(_)
includesJoin(q) ==
    /\ Len(q) >= 5
    /\ \/ SubSeq(q, 1, 5) = JoinName \o <<"=">>
       \/ includesJoin(Tail(q))

\* A faulty variant of generateShareUrl, against which C29 is tried: the id
\* is appended to the query as it is.
generateShareUrlPlain(q, peerId) ==
    (IF q = << >> THEN << >> ELSE q \o <<"&">>) \o JoinName \o <<"=">> \o peerId

\* UIController.generateShareUrl on a page whose URL has the query q.
generateShareUrl(q, peerId) ==
    serializeQuery(searchParamsSet(parseQuery(q), JoinName, peerId))

-----------------------------------------------------------------------------
\* The script's objects on one page, as one record.

\* The text of span#latency-<peer> as createRemoteMeter writes it.
Measuring == [text |-> "measuring", avg |-> 0, jitter |-> 0, quality |-> "none"]

NodeInit ==
    [ uiState        |-> "initial",   \* last argument of UIController.updateUIState
      audio          |-> FALSE,       \* audioManager: audioContext exists, isAudioActive
      remoteStreams  |-> {},          \* keys of audioManager.remoteStreams
      peer           |-> "none",      \* peerManager.peer: none (null), opening, open
      pending        |-> "idle",      \* what the click handler's await waits for
      target         |-> "",          \* remotePeerId of the join in progress
      connections    |-> {},          \* keys of peerManager.connections
      calls          |-> {},          \* keys of peerManager.calls
      statsIntervals |-> {},          \* keys of peerManager.statsIntervals
      pingIntervals  |-> {},          \* keys of latencyMonitor.pingIntervals
      pingHistory    |-> EmptyObj,    \* latencyMonitor.pingHistory: peer -> RTTs
      pendingPings   |-> EmptyObj,    \* latencyMonitor.pendingPings: pingId -> peerId
      peerList       |-> {},          \* peers with an li#peer-<id> in ul#peerList
      meters         |-> EmptyObj,    \* peers with a remote meter -> latency text
      debugTimers    |-> 0,           \* pending setTimeout callbacks of forcePingAll
      outbound       |-> {},          \* peers the page called peer.connect for
      stopping       |-> FALSE,       \* stopAudio awaits audioContext.close(): no localStream
      gen            |-> 0,           \* number of Peer objects constructed so far
      input          |-> << >>,       \* sessionIdInput.value
      startBtn       |-> TRUE,        \* startAudioBtn is enabled
      createBtn      |-> FALSE,       \* createSessionBtn (changeDeviceBtn, sessionIdInput) is enabled
      joinBtn        |-> FALSE,       \* joinSessionBtn is enabled
      notice         |-> "none",      \* the last notification of utils.showNotification
      latencyHistory |-> EmptyObj,    \* getStats monitor: latencyHistory, peer -> readings
      latIntervals   |-> {},          \* getStats monitor: keys of its statsIntervals
      getStats       |-> EmptyObj,    \* getStats monitor: peer -> calls of getStats() awaited
      isConnected    |-> FALSE,       \* peerManager.isConnected
      uncaught       |-> FALSE,       \* an exception has left a listener of the page
      href           |-> << >>,       \* the query of window.location.href, its characters
      share          |-> << >>,       \* the query of the URL in shareUrlInput.value
      createHidden   |-> FALSE,       \* createSessionBtn.style.display is 'none'
      superseded     |-> {},          \* peers with an earlier DataConnection, replaced in connections, not closed
      intervalTimers |-> [q \in Nodes |-> 0] ]  \* setInterval timers of startMonitoring not cleared, per peer

\* UIController.createRemoteMeter
createRemoteMeter(s, p) ==
    IF Has(s.meters, p) THEN s ELSE [s EXCEPT !.meters = Put(@, p, Measuring)]

\* UIController.removeRemoteMeter
removeRemoteMeter(s, p) == [s EXCEPT !.meters = Delete(@, p)]

\* UIController.addPeerToList
addPeerToList(s, p) ==
    IF p \in s.peerList
    THEN s
    ELSE createRemoteMeter([s EXCEPT !.peerList = @ \cup {p}], p)

\* UIController.removePeerFromList
removePeerFromList(s, p) ==
    removeRemoteMeter([s EXCEPT !.peerList = @ \ {p}], p)

\* AudioManager.processRemoteStream
processRemoteStream(s, p) ==
    IF ~s.audio
    THEN s
    ELSE createRemoteMeter([s EXCEPT !.remoteStreams = @ \cup {p}], p)

\* AudioManager.removeRemoteStream
removeRemoteStream(s, p) ==
    IF p \in s.remoteStreams
    THEN removeRemoteMeter([s EXCEPT !.remoteStreams = @ \ {p}], p)
    ELSE s

\* PeerManager.forceAudioProcess with a running audio context: the stream is
\* handed to processRemoteStream at once.  Without an audio context the
\* TypeError is caught and nothing is stored.
forceAudioProcess(s, p) == processRemoteStream(s, p)

\* A faulty variant of calculateLatencyStats, against which C24 is tried: the
\* sum of the differences is divided by the number of samples.
calculateLatencyStatsOffByOne(s, p) ==
    IF ~Has(s.pingHistory, p) \/ Len(s.pingHistory[p]) = 0
    THEN [avg |-> 0, jitter |-> 0]
    ELSE LET history == s.pingHistory[p]
             n == Len(history)
         IN  [ avg    |-> Round(SumSeq(history), n),
               jitter |-> IF n > 1 THEN Round(JitterSum(history), n) ELSE 0 ]

\* LatencyMonitor.calculateLatencyStats
calculateLatencyStats(s, p) ==
    IF ~Has(s.pingHistory, p) \/ Len(s.pingHistory[p]) = 0
    THEN [avg |-> 0, jitter |-> 0]
    ELSE LET history == s.pingHistory[p]
             n == Len(history)
         IN  [ avg    |-> Round(SumSeq(history), n),
               jitter |-> IF n > 1 THEN Round(JitterSum(history), n - 1) ELSE 0 ]

\* A faulty variant of getLatencyQuality, against which C23 is tried: the
\* limits are taken as inclusive.
getLatencyQualityInclusive(latency, jitter) ==
    IF latency <= 50 /\ jitter <= 15 THEN "good"
    ELSE IF latency <= 100 /\ jitter <= 30 THEN "medium"
    ELSE "poor"

\* LatencyMonitor.getLatencyQuality
getLatencyQuality(latency, jitter) ==
    IF latency < 50 /\ jitter < 15 THEN "good"
    ELSE IF latency < 100 /\ jitter < 30 THEN "medium"
    ELSE "poor"

\* LatencyMonitor.updateLatencyDisplay: the span is found only while the
\* peer's remote meter exists; the span and the meter div are created and
\* removed together, so the fallback search finds nothing either.
updateLatencyDisplay(s, p) ==
    LET stats == calculateLatencyStats(s, p)
    IN  IF Has(s.meters, p)
        THEN [s EXCEPT !.meters[p] =
                 [ text    |-> "numeric",
                   avg     |-> stats.avg,
                   jitter  |-> stats.jitter,
                   quality |-> getLatencyQuality(stats.avg, stats.jitter) ]]
        ELSE s

\* A faulty variant of stopMonitoring, against which C20 is tried: the
\* pending pings of every peer are dropped.
stopMonitoringDropsAll(s, p) ==
    IF p \in s.pingIntervals
    THEN [s EXCEPT !.intervalTimers[p] = @ - 1,
                   !.pingIntervals = @ \ {p},
                   !.pingHistory   = Delete(@, p),
                   !.pendingPings  = EmptyObj]
    ELSE s

\* A faulty variant of stopMonitoring, against which C28 is tried: it does
\* not look whether the peer has an interval.
stopMonitoringAlways(s, p) ==
    LET keep == {id \in DOMAIN s.pendingPings : s.pendingPings[id] # p}
    IN  [s EXCEPT !.intervalTimers[p] = IF p \in s.pingIntervals THEN @ - 1 ELSE @,
                  !.pingIntervals = @ \ {p},
                  !.pingHistory   = Delete(@, p),
                  !.pendingPings  = [id \in keep |-> s.pendingPings[id]]]

\* A faulty variant of stopMonitoring, against which C39 is tried: the
\* interval is forgotten but not cleared.
stopMonitoringLeaksTimer(s, p) ==
    IF p \in s.pingIntervals
    THEN LET keep == {id \in DOMAIN s.pendingPings : s.pendingPings[id] # p}
         IN  [s EXCEPT !.pingIntervals = @ \ {p},
                       !.pingHistory   = Delete(@, p),
                       !.pendingPings  = [id \in keep |-> s.pendingPings[id]]]
    ELSE s

\* LatencyMonitor.stopMonitoring
stopMonitoring(s, p) ==
    IF p \in s.pingIntervals
    THEN LET keep == {id \in DOMAIN s.pendingPings : s.pendingPings[id] # p}
         IN  [s EXCEPT !.intervalTimers[p] = @ - 1,
                       !.pingIntervals = @ \ {p},
                       !.pingHistory   = Delete(@, p),
                       !.pendingPings  = [id \in keep |-> s.pendingPings[id]]]
    ELSE s

\* LatencyMonitor.startMonitoring, its effect on the monitor's maps.  The
\* interval, the 200 ms timeout and the data listener it attaches to the
\* connection are in StartTimers.
startMonitoring(s, p) ==
    IF p \in s.pingIntervals
    THEN s
    ELSE [s EXCEPT !.pingHistory   = Put(@, p, << >>),
                   !.pingIntervals = @ \cup {p},
                   !.intervalTimers[p] = @ + 1]

\* A faulty variant of Trim, against which C32 is tried: the newest samples
\* are dropped.
TrimNewest(h) == IF Len(h) > historyLength THEN SubSeq(h, 1, historyLength) ELSE h

\* A faulty variant of Trim, against which C8 is tried: nothing is dropped.
TrimNothing(h) == h

\* The while loop of processPong: drop the oldest samples.
RECURSIVE Trim(_)
Trim(h) == IF Len(h) > historyLength THEN Trim(Tail(h)) ELSE h

\* A faulty variant of processPong, against which C7 is tried: the sample is
\* recorded whether or not the ping id is pending.
processPongUnchecked(s, p, pingId, rtt) ==
    LET old == IF Has(s.pingHistory, p) THEN s.pingHistory[p] ELSE << >>
        s1  == [s EXCEPT !.pingHistory = Put(@, p, Trim(Append(old, rtt)))]
        s2  == updateLatencyDisplay(s1, p)
        ids == DOMAIN s.pendingPings \ {pingId}
    IN  [s2 EXCEPT !.pendingPings = [id \in ids |-> s.pendingPings[id]]]

\* LatencyMonitor.processPong; rtt is Date.now() minus the ping's timestamp.
processPong(s, p, pingId, rtt) ==
    IF ~Has(s.pendingPings, pingId)
    THEN s
    ELSE LET old == IF Has(s.pingHistory, p) THEN s.pingHistory[p] ELSE << >>
             s1  == [s EXCEPT !.pingHistory = Put(@, p, Trim(Append(old, rtt)))]
             s2  == updateLatencyDisplay(s1, p)
         IN  [s2 EXCEPT !.pendingPings = Delete(@, pingId)]

\* PeerManager.handleConnection: the connection is stored; its listeners are
\* the handlers of ConnOpen, DeliverData and ConnClose.
handleConnection(s, p) == [s EXCEPT !.connections = @ \cup {p}]

\* A faulty variant of handlePeerDisconnection, against which C11 is tried:
\* the latency monitor is left running.
handlePeerDisconnectionKeepsMonitor(s, p) ==
    LET s1 == [s EXCEPT !.connections    = @ \ {p},
                        !.calls          = @ \ {p},
                        !.statsIntervals = @ \ {p}]
    IN  removePeerFromList(removeRemoteStream(s1, p), p)

\* PeerManager.handlePeerDisconnection
handlePeerDisconnection(s, p) ==
    LET s1 == [s EXCEPT !.connections    = @ \ {p},
                        !.calls          = @ \ {p},
                        !.statsIntervals = @ \ {p}]
    IN  removePeerFromList(removeRemoteStream(stopMonitoring(s1, p), p), p)

\* PeerManager.getConnectedPeers
getConnectedPeers(s) == s.connections

\* PeerManager.isConnectedToPeer
isConnectedToPeer(n, p) == p \in node[n].connections /\ dc[<<n, p>>] = "open"

-----------------------------------------------------------------------------
\* The PeerJS objects and the data messages.

\* A data message as a listener receives it: kind is what the message is
\* (an object, null, or a string), type is the object's type ("" when it has
\* none), pingId and timestamp are the fields of a latency message.
Msg(t, id) == [kind |-> "object", type |-> t, pingId |-> id, timestamp |-> 0]

\* The message of sendPing.  Its pingId and its timestamp are both taken from
\* Date.now() when it is sent: the id-th ping carries the id-th time.
Ping(id) == [Msg("latency-ping", id) EXCEPT !.timestamp = id]

\* The answer of the data listener of startMonitoring to the ping msg.
Pong(msg) == [Msg("latency-pong", msg.pingId) EXCEPT !.timestamp = msg.timestamp]

\* data && typeof data === 'object'
IsObject(msg) == msg.kind = "object"

\* An object of type t.
IsType(msg, t) == IsObject(msg) /\ msg.type = t

\* End <<n, p>> is the DataConnection that connectToPeer created on page n.
Outbound(n, p) == p \in node[n].outbound

Send(w, from, to, msgs) == [w EXCEPT ![<<from, to>>] = @ \o msgs]

\* The interval and timeout callbacks and the data listener that
\* startMonitoring attaches; nothing when the peer is already monitored.
StartTimers(t, s, n, p) ==
    IF p \in s.pingIntervals
    THEN t
    ELSE [t EXCEPT ![<<n, p>>] = [initial   |-> @.initial + 1,
                                   listeners |-> @.listeners + 1]]

\* Every page freshly loaded, nothing connected; b is the exploration's budget.
Loaded(b) ==
    /\ node = [n \in Nodes |-> NodeInit]
    /\ dc = [e \in Ends |-> "none"]
    /\ mc = [e \in Ends |-> "none"]
    /\ wire = [e \in Ends |-> << >>]
    /\ timers = [e \in Ends |-> [initial |-> 0, listeners |-> 0]]
    /\ pingSeq = 0
    /\ budget = b

\* Spec: the users of A and B act, C stays idle.  With at most MaxPings pings,
\* two pongs for each and one audio-settings message, flight bounds nothing.
Init ==
    Loaded([pings |-> MaxPings, force |-> MaxForce, inject |-> 0,
            users |-> {"A", "B"}, rtts |-> {20}, flight |-> 2 * MaxPings + 1,
            changes |-> 0, errors |-> 0, peers |-> 1, ticks |-> 0])

-----------------------------------------------------------------------------
\* User actions.

\* audioManager.getLocalStream(): stopAudio drops the stream before it awaits
\* the closing of the audio context.
getLocalStream(s) == s.audio /\ ~s.stopping

\* UIController.updateUIState(state): the state's name and the disabled
\* flags it writes.  createBtn stands for the Create Session button, the
\* Change Device button and the session id field, which every case sets
\* alike; audioManager.isAudioActive is true as long as the audio context
\* exists.
updateUIState(s, state) ==
    LET typed == trim(s.input) # << >>
    IN  CASE state = "initial" ->
               [s EXCEPT !.uiState = state, !.startBtn = TRUE,
                         !.createBtn = FALSE, !.joinBtn = FALSE,
                         !.createHidden = includesJoin(s.href)]
          [] state = "audio_ready" ->
               [s EXCEPT !.uiState = state, !.startBtn = FALSE,
                         !.createBtn = TRUE, !.joinBtn = typed]
          [] state = "error" ->
               [s EXCEPT !.uiState = state, !.startBtn = ~s.audio,
                         !.createBtn = s.audio, !.joinBtn = s.audio /\ typed,
                         !.notice = "error"]
          [] OTHER ->
               [s EXCEPT !.uiState = state,
                         !.createBtn = FALSE, !.joinBtn = FALSE]

\* UIController.updateShareUrl, once the page has a peer id, which the
\* session id field of a creating page holds.
updateShareUrl(s) == [s EXCEPT !.share = generateShareUrl(s.href, s.input)]

\* UIController.checkUrlForJoinParameter: the id of a join link goes to the
\* session id field, and history.replaceState shows the URL without it.
checkUrlForJoinParameter(s) ==
    LET params    == parseQuery(s.href)
        joinParam == searchParamsGet(params, JoinName)
    IN  IF joinParam # << >>
        THEN [s EXCEPT !.input = joinParam,
                       !.createHidden = TRUE,
                       !.notice = "link",
                       !.href = serializeQuery(searchParamsDelete(params, JoinName))]
        ELSE s

\* Click on "Start Audio Input" with a device selected; initAudio succeeds.
StartAudio(n) ==
    /\ n \in budget.users
    /\ node[n].startBtn
    /\ node' = [node EXCEPT ![n] = updateUIState([@ EXCEPT !.audio = TRUE], "audio_ready")]
    /\ UNCHANGED <<dc, mc, wire, timers, pingSeq, budget>>

\* Click on "Change Device": stopAudio() drops the local stream and awaits
\* audioContext.close().
ChangeDevice(n) ==
    /\ n \in budget.users
    /\ node[n].createBtn
    /\ ~node[n].stopping
    /\ budget.changes > 0
    /\ budget' = [budget EXCEPT !.changes = @ - 1]
    /\ node' = [node EXCEPT ![n].stopping = TRUE]
    /\ UNCHANGED <<dc, mc, wire, timers, pingSeq>>

\* audioContext.close() resolves: stopAudio ends, and the Change Device
\* handler goes on to updateUIState('initial').
AudioClosed(n) ==
    /\ node[n].stopping
    /\ node' = [node EXCEPT ![n] =
                   updateUIState([@ EXCEPT !.audio = FALSE, !.stopping = FALSE], "initial")]
    /\ UNCHANGED <<dc, mc, wire, timers, pingSeq, budget>>

\* The user of a joining page edits the session id field: the 'input'
\* listener sets the Join button only while there is a local stream.
TypeId(n, v) ==
    /\ n \in budget.users /\ n \in Joiners
    /\ node[n].createBtn
    /\ v # node[n].input
    /\ node' = [node EXCEPT ![n].input = v,
                            ![n].joinBtn = IF getLocalStream(node[n])
                                           THEN trim(v) # << >>
                                           ELSE @]
    /\ UNCHANGED <<dc, mc, wire, timers, pingSeq, budget>>

\* No click handler of the page is waiting for a promise that can still be
\* settled.
Settled(s) == s.pending \in {"idle", "never"}

\* The 'close' listeners that run for the peers in peers.
RECURSIVE disconnectEach(_, _)
disconnectEach(s, peers) ==
    IF peers = {}
    THEN s
    ELSE LET p == CHOOSE x \in peers : TRUE
         IN  disconnectEach(handlePeerDisconnection(s, p), peers \ {p})

\* The peers of n with a channel that emits 'close' when it is closed.
Emitting(n) ==
    {p \in Nodes \ {n} : dc[<<n, p>>] = "open" \/ mc[<<n, p>>] \in {"open", "streaming"}}

\* The channels ch of page n after peer.destroy(): the live ones are closed.
closedAll(ch, n, live) ==
    [e \in Ends |-> IF e[1] = n /\ ch[e] \in live THEN "closed" ELSE ch[e]]

\* PeerManager.initPeer, on the page's objects: an existing Peer is
\* destroyed, which closes its connections and calls, then a new Peer is
\* constructed; waits is the handler that awaits the promise.
initPeer(s, n, waits) ==
    [(IF s.peer = "none" THEN s ELSE disconnectEach(s, Emitting(n)))
        EXCEPT !.peer = "opening", !.gen = @ + 1, !.pending = waits,
               !.isConnected = FALSE]

\* The step of initPeer from the page state s, within the bound on the Peer
\* objects of one page.
NewPeer(n, s, waits) ==
    /\ s.gen < budget.peers
    /\ node' = [node EXCEPT ![n] = initPeer(s, n, waits)]
    /\ IF s.peer = "none"
       THEN UNCHANGED <<dc, mc, wire>>
       ELSE /\ dc' = closedAll(dc, n, {"connecting", "open"})
            /\ mc' = closedAll(mc, n, {"calling", "open", "streaming"})
            /\ wire' = [e \in Ends |-> IF e[2] = n THEN << >> ELSE wire[e]]

\* Click on "Create Session": updateUIState('connecting'), initPeer(true).
\* A joining page creates a session only once it has a Peer of its own.
CreateSession(n) ==
    /\ n \in budget.users
    /\ n \in Creators \/ node[n].peer # "none"
    /\ node[n].createBtn /\ ~node[n].createHidden
    /\ Settled(node[n])
    /\ NewPeer(n, updateUIState(node[n], "connecting"), "create")
    /\ UNCHANGED <<timers, pingSeq, budget>>

\* PeerManager.connectToPeer up to its promise: peer.connect(p) creates the
\* DataConnection, whose 'open' and 'error' listeners settle the promise.
connectToPeer(s, p) == [s EXCEPT !.outbound = @ \cup {p}, !.pending = "connect"]

\* A faulty variant of JoinSession, against which C17 is tried: what is
\* tested for being empty is the field's value, not the trimmed id; an id of
\* blanks only names no page, as "C" does.
JoinSessionUntrimmed(n) ==
    /\ n \in budget.users
    /\ node[n].joinBtn
    /\ Settled(node[n])
    /\ IF node[n].input = << >>
       THEN /\ node' = [node EXCEPT ![n].notice = "enter-id"]
            /\ UNCHANGED <<dc, mc, wire>>
       ELSE LET id == trim(node[n].input)
                p  == IF id = << >> THEN "C" ELSE id[1]
                s1 == [updateUIState(node[n], "connecting") EXCEPT !.target = p]
            IN  /\ p \in Nodes \ {n}
                /\ IF s1.peer = "none"
                   THEN NewPeer(n, s1, "init")
                   ELSE /\ dc[<<n, p>>] = "none"
                        /\ node' = [node EXCEPT ![n] = connectToPeer(s1, p)]
                        /\ dc' = [dc EXCEPT ![<<n, p>>] = "connecting"]
                        /\ UNCHANGED <<mc, wire>>
    /\ UNCHANGED <<timers, pingSeq, budget>>

\* Click on "Join Session".  An id that is empty after trim() is refused
\* with a notification.  Otherwise updateUIState('connecting'), then
\* initPeer(false) if the page has no Peer yet, else connectToPeer at once.
JoinSession(n) ==
    /\ n \in budget.users
    /\ node[n].joinBtn
    /\ Settled(node[n])
    /\ IF trim(node[n].input) = << >>
       THEN /\ node' = [node EXCEPT ![n].notice = "enter-id"]
            /\ UNCHANGED <<dc, mc, wire>>
       ELSE LET p  == trim(node[n].input)[1]
                s1 == [updateUIState(node[n], "connecting") EXCEPT !.target = p]
            IN  /\ p \in Nodes \ {n}
                /\ IF s1.peer = "none"
                   THEN NewPeer(n, s1, "init")
                   ELSE /\ dc[<<n, p>>] = "none"
                        /\ node' = [node EXCEPT ![n] = connectToPeer(s1, p)]
                        /\ dc' = [dc EXCEPT ![<<n, p>>] = "connecting"]
                        /\ UNCHANGED <<mc, wire>>
    /\ UNCHANGED <<timers, pingSeq, budget>>

-----------------------------------------------------------------------------
\* Events of the Peer.

\* A faulty variant of PeerOpen, against which C6 is tried: the join places
\* the media call right after peer.connect, without waiting for 'open'.
PeerOpenCallsEarly(n) ==
    /\ node[n].peer = "opening"
    /\ IF node[n].pending = "create"
       THEN /\ node' = [node EXCEPT ![n] =
                           updateShareUrl(
                               updateUIState([@ EXCEPT !.peer = "open", !.pending = "idle",
                                                 !.isConnected = TRUE, !.input = <<n>>],
                                             "session_created"))]
            /\ UNCHANGED <<dc, mc>>
       ELSE /\ dc[<<n, node[n].target>>] = "none"
            /\ node' = [node EXCEPT ![n] =
                           [connectToPeer([@ EXCEPT !.peer = "open", !.isConnected = TRUE], @.target)
                               EXCEPT !.calls = @ \cup {node[n].target}]]
            /\ dc' = [dc EXCEPT ![<<n, node[n].target>>] = "connecting"]
            /\ mc' = [mc EXCEPT ![<<n, node[n].target>>] = "calling"]
    /\ UNCHANGED <<wire, timers, pingSeq, budget>>

\* peer.on('open'): the broker assigned the id, which a creating page writes
\* into its session id field, and initPeer resolves.  The create handler goes
\* on to updateUIState('session_created'); the join handler goes on to
\* connectToPeer, which calls peer.connect(target).
PeerOpen(n) ==
    /\ node[n].peer = "opening"
    /\ IF node[n].pending = "create"
       THEN /\ node' = [node EXCEPT ![n] =
                           updateShareUrl(
                               updateUIState([@ EXCEPT !.peer = "open", !.pending = "idle",
                                                 !.isConnected = TRUE, !.input = <<n>>],
                                             "session_created"))]
            /\ UNCHANGED dc
       ELSE /\ dc[<<n, node[n].target>>] = "none"
            /\ node' = [node EXCEPT ![n] =
                           connectToPeer([@ EXCEPT !.peer = "open", !.isConnected = TRUE],
                                         @.target)]
            /\ dc' = [dc EXCEPT ![<<n, node[n].target>>] = "connecting"]
    /\ UNCHANGED <<mc, wire, timers, pingSeq, budget>>

\* The broker knows page p under the id the other pages type: p's first Peer
\* is open.
Registered(p) == node[p].peer = "open" /\ node[p].gen = 1

\* peer.on('error') with type peer-unavailable: the target is not registered
\* with the broker.  The handler shows a notification and rejects the promise
\* of initPeer, which is settled already; PeerJS closes the connection, which
\* never opened and so emits nothing: the promise of connectToPeer can no
\* longer be settled.
PeerUnavailable(n, p) ==
    /\ Outbound(n, p)
    /\ dc[<<n, p>>] = "connecting"
    /\ dc[<<p, n>>] = "none"
    /\ ~Registered(p)
    /\ dc' = [dc EXCEPT ![<<n, p>>] = "closed"]
    /\ node' = [node EXCEPT ![n].notice = "peer-not-found",
                            ![n].pending = IF @ = "connect" /\ node[n].target = p
                                           THEN "never" ELSE @]
    /\ UNCHANGED <<mc, wire, timers, pingSeq, budget>>

\* peer.on('connection'): handleConnection(conn) for a connection that is
\* not open yet.
ConnectionEvent(n, p) ==
    /\ Outbound(p, n)
    /\ Registered(n)
    /\ dc[<<p, n>>] = "connecting"
    /\ dc[<<n, p>>] = "none"
    /\ dc' = [dc EXCEPT ![<<n, p>>] = "connecting"]
    /\ node' = [node EXCEPT ![n] = handleConnection(@, p)]
    /\ UNCHANGED <<mc, wire, timers, pingSeq, budget>>

\* peer.on('call'): handleIncomingCall(call) stores and answers the call and
\* sets up the adaptive jitter buffer.
CallEvent(n, p) ==
    /\ Registered(n)
    /\ mc[<<p, n>>] = "calling"
    /\ mc[<<n, p>>] = "none"
    /\ mc' = [mc EXCEPT ![<<n, p>>] = "open"]
    /\ node' = [node EXCEPT ![n].calls = @ \cup {p},
                            ![n].statsIntervals = @ \cup {p}]
    /\ UNCHANGED <<dc, wire, timers, pingSeq, budget>>

-----------------------------------------------------------------------------
\* Events of a DataConnection.

\* The listener connectToPeer registered for 'open' on the connection it
\* created: handleConnection(conn), which adds its own 'open' listener too
\* late to be called, then callPeer.  callPeer rejects without a local
\* stream, and the join handler's catch sets the error state; otherwise it
\* calls peer.call, stores the call and sets up the adaptive jitter buffer.
OpenOutbound(s, p) ==
    LET s1 == handleConnection(s, p)
    IN  IF ~getLocalStream(s1)
        THEN IF s.pending = "connect" /\ s.target = p
             THEN updateUIState([s1 EXCEPT !.pending = "idle"], "error")
             ELSE s1
        ELSE [s1 EXCEPT !.calls = @ \cup {p},
                        !.statsIntervals = @ \cup {p}]

\* The listener handleConnection registered for 'open' on a connection
\* received by peer.on('connection'): addPeerToList, startMonitoring.  The
\* audio-settings message it sends is in ConnOpen.
OpenInbound(s, p) == startMonitoring(addPeerToList(s, p), p)

\* 'open' on page n's connection to p.
ConnOpen(n, p) ==
    /\ dc[<<n, p>>] = "connecting"
    /\ dc[<<p, n>>] \in {"connecting", "open"}
    /\ dc' = [dc EXCEPT ![<<n, p>>] = "open"]
    /\ IF Outbound(n, p)
       THEN /\ node' = [node EXCEPT ![n] = OpenOutbound(@, p)]
            /\ mc' = IF getLocalStream(node[n])
                     THEN [mc EXCEPT ![<<n, p>>] = "calling"]
                     ELSE mc
            /\ UNCHANGED <<wire, timers>>
       ELSE /\ node' = [node EXCEPT ![n] = OpenInbound(@, p)]
            /\ timers' = StartTimers(timers, addPeerToList(node[n], p), n, p)
            /\ wire' = Send(wire, n, p, <<Msg("audio-settings", 0)>>)
            /\ UNCHANGED mc
    /\ UNCHANGED <<pingSeq, budget>>

\* A faulty variant of the 'close' listener, against which C40 is tried:
\* after the teardown the page connects to the peer again.
ConnCloseRedials(n, p) ==
    /\ dc[<<n, p>>] = "open"
    /\ dc' = [dc EXCEPT ![<<n, p>>] = "connecting"]
    /\ wire' = [wire EXCEPT ![<<p, n>>] = << >>]
    /\ node' = [node EXCEPT ![n] = [handlePeerDisconnection(@, p) EXCEPT !.outbound = @ \cup {p}]]
    /\ UNCHANGED <<mc, timers, pingSeq, budget>>

\* 'close' on page n's connection to p (the peer closed it or the transport
\* failed): the listener of handleConnection calls handlePeerDisconnection.
ConnClose(n, p) ==
    /\ dc[<<n, p>>] = "open"
    /\ dc' = [dc EXCEPT ![<<n, p>>] = "closed"]
    /\ wire' = [wire EXCEPT ![<<p, n>>] = << >>]
    /\ node' = [node EXCEPT ![n] = handlePeerDisconnection(@, p)]
    /\ UNCHANGED <<mc, timers, pingSeq, budget>>

\* A faulty variant of ManagerData, against which C26 is tried: the listener
\* reads data.type before it knows that data is an object, as the listener
\* of the earlier revision does, and throws a TypeError on null.
ManagerDataUnchecked(s, p, msg) ==
    IF msg.kind = "null" THEN [s EXCEPT !.uncaught = TRUE]
    ELSE IF IsType(msg, "stats-update") THEN updateLatencyDisplay(s, p)
    ELSE s

\* The data listener of handleConnection: what is not an object with a type
\* is logged as invalid; a stats-update refreshes the display;
\* audio-settings, chat and unknown types are logged.
ManagerData(s, p, msg) ==
    IF ~IsObject(msg) \/ msg.type = "" THEN s
    ELSE IF msg.type = "stats-update" THEN updateLatencyDisplay(s, p)
    ELSE s

\* The data listeners of startMonitoring on a latency-pong: each of the k
\* listeners calls processPong.
RECURSIVE MonitorPong(_, _, _, _, _)
MonitorPong(s, p, pingId, rtt, k) ==
    IF k = 0 THEN s ELSE MonitorPong(processPong(s, p, pingId, rtt), p, pingId, rtt, k - 1)

\* The data listeners of startMonitoring on the latency-ping msg: each of
\* the k listeners sends a latency-pong with the ping's id and timestamp.
RECURSIVE MonitorEcho(_, _)
MonitorEcho(msg, k) ==
    IF k = 0 THEN << >> ELSE <<Pong(msg)>> \o MonitorEcho(msg, k - 1)

\* 'data' on page n's connection to p: the listeners run in the order of
\* their registration, and none after one that throws.
DeliverData(p, n) ==
    /\ dc[<<n, p>>] = "open"
    /\ wire[<<p, n>>] # << >>
    /\ LET msg == Head(wire[<<p, n>>])
           k   == timers[<<n, p>>].listeners
           s1  == ManagerData(node[n], p, msg)
           rest == [wire EXCEPT ![<<p, n>>] = Tail(@)]
       IN  /\ \E rtt \in budget.rtts :
                node' = [node EXCEPT ![n] =
                            IF IsType(msg, "latency-pong") /\ s1.uncaught = node[n].uncaught
                            THEN MonitorPong(s1, p, msg.pingId, rtt, k)
                            ELSE s1]
           /\ wire' = IF IsType(msg, "latency-ping") /\ s1.uncaught = node[n].uncaught
                      THEN Send(rest, n, p, MonitorEcho(msg, k))
                      ELSE rest
    /\ UNCHANGED <<dc, mc, timers, pingSeq, budget>>

-----------------------------------------------------------------------------
\* Events of a MediaConnection.

\* 'stream' on page n's call with p.  On the calling side it comes with the
\* answer; the listener of callPeer resolves, and the join handler goes on
\* to updateUIState('connected').
CallStream(n, p) ==
    /\ \/ mc[<<n, p>>] = "calling" /\ mc[<<p, n>>] \in {"open", "streaming"}
       \/ mc[<<n, p>>] = "open"
    /\ mc' = [mc EXCEPT ![<<n, p>>] = "streaming"]
    /\ LET s1 == forceAudioProcess(node[n], p)
       IN  node' = [node EXCEPT ![n] =
                       IF mc[<<n, p>>] = "calling" /\ s1.pending = "connect" /\ s1.target = p
                       THEN updateUIState([s1 EXCEPT !.pending = "idle"], "connected")
                       ELSE s1]
    /\ UNCHANGED <<dc, wire, timers, pingSeq, budget>>

\* 'close' on page n's call with p, which PeerJS emits for a call that was
\* answered: the listener calls handlePeerDisconnection.
CallClose(n, p) ==
    /\ mc[<<n, p>>] \in {"open", "streaming"}
    /\ mc' = [mc EXCEPT ![<<n, p>>] = "closed"]
    /\ node' = [node EXCEPT ![n] = handlePeerDisconnection(@, p)]
    /\ UNCHANGED <<dc, wire, timers, pingSeq, budget>>

-----------------------------------------------------------------------------
\* 'error' events.  The PeerJS negotiator emits 'error' on a connection or a
\* call whose transport fails and then calls its close(), which emits 'close'
\* only if it was open.

\* The listeners for 'error' on page n's connection to p.  The one of
\* handleConnection logs.  The one of connectToPeer rejects its promise, and
\* the join handler that awaits it sets the error state.
ConnError(n, p) ==
    /\ budget.errors > 0
    /\ budget' = [budget EXCEPT !.errors = @ - 1]
    /\ dc[<<n, p>>] \in {"connecting", "open"}
    /\ LET s0 == node[n]
           s1 == IF Outbound(n, p) /\ s0.pending = "connect" /\ s0.target = p
                 THEN updateUIState([s0 EXCEPT !.pending = "idle"], "error")
                 ELSE s0
       IN  node' = [node EXCEPT ![n] =
                       IF dc[<<n, p>>] = "open" THEN handlePeerDisconnection(s1, p) ELSE s1]
    /\ dc' = [dc EXCEPT ![<<n, p>>] = "closed"]
    /\ wire' = [wire EXCEPT ![<<p, n>>] = << >>]
    /\ UNCHANGED <<mc, timers, pingSeq>>

\* The listeners for 'error' on page n's call with p.  The one of
\* handleIncomingCall logs.  The one of callPeer logs and rejects, which
\* rejects the promise of connectToPeer too.
CallError(n, p) ==
    /\ budget.errors > 0
    /\ budget' = [budget EXCEPT !.errors = @ - 1]
    /\ mc[<<n, p>>] \in {"calling", "open", "streaming"}
    /\ LET s0 == node[n]
           s1 == IF Outbound(n, p) /\ s0.pending = "connect" /\ s0.target = p
                 THEN updateUIState([s0 EXCEPT !.pending = "idle"], "error")
                 ELSE s0
       IN  node' = [node EXCEPT ![n] =
                       IF mc[<<n, p>>] \in {"open", "streaming"}
                       THEN handlePeerDisconnection(s1, p)
                       ELSE s1]
    /\ mc' = [mc EXCEPT ![<<n, p>>] = "closed"]
    /\ UNCHANGED <<dc, wire, timers, pingSeq>>

-----------------------------------------------------------------------------
\* Timer callbacks of the latency monitor.  st is what a call of the monitor
\* can change: the page's objects (s), the timers and listeners (t), the
\* messages in flight (w) and the number of pings sent (seq).

\* A faulty variant of sendPing, against which C12 is tried: the state of the
\* connection is not looked at.
sendPingUnguarded(st, n, p) ==
    [st EXCEPT !.s.pendingPings = Put(@, st.seq + 1, p),
               !.w = Send(@, n, p, <<Ping(st.seq + 1)>>),
               !.seq = @ + 1]

\* LatencyMonitor.sendPing(peerId, connection): on a connection that is not
\* open it stops the monitoring, else it stores and sends a ping with a
\* fresh id.
sendPing(st, n, p) ==
    IF dc[<<n, p>>] = "open"
    THEN [st EXCEPT !.s.pendingPings = Put(@, st.seq + 1, p),
                    !.w = Send(@, n, p, <<Ping(st.seq + 1)>>),
                    !.seq = @ + 1]
    ELSE [st EXCEPT !.s = stopMonitoring(@, p)]

Now(n) == [s |-> node[n], t |-> timers, w |-> wire, seq |-> pingSeq]

\* The step to st, within the bounds on the pings of one behaviour and on
\* the messages in flight when a ping is sent.
Becomes(n, st) ==
    /\ st.seq <= budget.pings
    /\ st.seq > pingSeq =>
          \A e \in Ends : Len(st.w[e]) + Len(st.w[<<e[2], e[1]>>]) <= budget.flight
    /\ node' = [node EXCEPT ![n] = st.s]
    /\ timers' = st.t
    /\ wire' = st.w
    /\ pingSeq' = st.seq

\* The setInterval callback of startMonitoring.
PingTick(n, p) ==
    /\ node[n].intervalTimers[p] > 0
    /\ Becomes(n, sendPing(Now(n), n, p))
    /\ UNCHANGED <<dc, mc, budget>>

\* The setTimeout callback of startMonitoring (200 ms), which nothing cancels.
InitialPing(n, p) ==
    /\ timers[<<n, p>>].initial > 0
    /\ Becomes(n, sendPing([Now(n) EXCEPT !.t[<<n, p>>].initial = @ - 1], n, p))
    /\ UNCHANGED <<dc, mc, budget>>

\* A faulty variant of forcePingAll's loop body, against which C34 is tried:
\* the ping is sent to every registered connection, open or not.
forcePingUnchecked(st, n, p) ==
    IF p \in st.s.connections
    THEN LET s1 == stopMonitoring(st.s, p)
         IN  sendPingUnguarded([st EXCEPT !.t = StartTimers(@, s1, n, p),
                                          !.s = startMonitoring(s1, p)], n, p)
    ELSE st

\* The body of the forEach of forcePingAll for one peer.
forcePing(st, n, p) ==
    IF p \in st.s.connections /\ dc[<<n, p>>] = "open"
    THEN LET s1 == stopMonitoring(st.s, p)
         IN  sendPing([st EXCEPT !.t = StartTimers(@, s1, n, p),
                                 !.s = startMonitoring(s1, p)], n, p)
    ELSE st

\* The body of the second loop of debugLatencyMonitor for one peer: a ping is
\* forced to a monitored peer that has no sample.
debugPing(st, n, p) ==
    IF /\ p \in st.s.pingIntervals
       /\ (~Has(st.s.pingHistory, p) \/ Len(st.s.pingHistory[p]) = 0)
    THEN sendPing(st, n, p)
    ELSE st

\* peers.forEach of forcePingAll over the peers of getConnectedPeers().
RECURSIVE forcePingEach(_, _, _)
forcePingEach(st, n, peers) ==
    IF peers = {}
    THEN st
    ELSE LET p == CHOOSE x \in peers : TRUE
         IN  forcePingEach(forcePing(st, n, p), n, peers \ {p})

\* The second loop of debugLatencyMonitor over the peers of
\* getConnectedPeers().
RECURSIVE debugPingEach(_, _, _)
debugPingEach(st, n, peers) ==
    IF peers = {}
    THEN st
    ELSE LET p == CHOOSE x \in peers : TRUE
         IN  debugPingEach(debugPing(st, n, p), n, peers \ {p})

\* latencyMonitor.forcePingAll(), called from the console.
ForcePingAll(n) ==
    /\ n \in budget.users
    /\ budget.force > 0
    /\ budget' = [budget EXCEPT !.force = @ - 1]
    /\ LET st == forcePingEach(Now(n), n, getConnectedPeers(node[n]))
       IN  Becomes(n, [st EXCEPT !.s.debugTimers = @ + 1])
    /\ UNCHANGED <<dc, mc>>

\* The setTimeout callback of forcePingAll (3 s): debugLatencyMonitor().
DebugCallback(n) ==
    /\ node[n].debugTimers > 0
    /\ LET st == [Now(n) EXCEPT !.s.debugTimers = @ - 1]
       IN  Becomes(n, debugPingEach(st, n, getConnectedPeers(st.s)))
    /\ UNCHANGED <<dc, mc, budget>>

-----------------------------------------------------------------------------
\* The Disconnect button that addPeerToList puts beside the peer.  close()
\* on the open data connection emits 'close' at once, so
\* handlePeerDisconnection runs and deletes the call from the registry before
\* the button's handler looks it up.
ClickDisconnect(n, p) ==
    /\ n \in budget.users
    /\ p \in node[n].peerList
    /\ LET s0 == node[n]
           closeData == p \in s0.connections /\ dc[<<n, p>>] = "open"
           s1 == IF closeData THEN handlePeerDisconnection(s0, p) ELSE s0
           closeCall == p \in s1.calls
           emits == closeCall /\ mc[<<n, p>>] \in {"open", "streaming"}
           s2 == IF emits THEN handlePeerDisconnection(s1, p) ELSE s1
       IN  /\ dc' = IF closeData THEN [dc EXCEPT ![<<n, p>>] = "closed"] ELSE dc
           /\ wire' = IF closeData THEN [wire EXCEPT ![<<p, n>>] = << >>] ELSE wire
           /\ mc' = IF closeCall /\ mc[<<n, p>>] # "none"
                    THEN [mc EXCEPT ![<<n, p>>] = "closed"]
                    ELSE mc
           /\ node' = [node EXCEPT ![n] =
                          removePeerFromList(stopMonitoring(removeRemoteStream(s2, p), p), p)]
    /\ UNCHANGED <<timers, pingSeq, budget>>

-----------------------------------------------------------------------------
\* A faulty variant of disconnect, against which C21 is tried: the registry
\* is emptied and the Peer is dropped, but nothing is closed.
disconnectForgets(s, n) ==
    [s EXCEPT !.statsIntervals = {}, !.connections = {}, !.calls = {},
              !.peer = "none", !.isConnected = FALSE]

\* PeerManager.disconnect, on the page's objects.  close() on the open
\* connections of the registry, then on the calls left in the registry; each
\* one that was open emits 'close', whose listener calls
\* handlePeerDisconnection.  The registry is emptied, and peer.destroy()
\* closes what the Peer still holds, open channels the registry had lost
\* included.
disconnect(s, n) ==
    LET conns == {p \in s.connections : dc[<<n, p>>] = "open"}
        s1    == disconnectEach(s, conns)
        calls == {p \in s1.calls : mc[<<n, p>>] \in {"open", "streaming"}}
        s2    == disconnectEach(s1, calls)
        s3    == [s2 EXCEPT !.statsIntervals = {}, !.connections = {}, !.calls = {}]
        rest  == Emitting(n) \ (conns \cup calls)
        s4    == IF s.peer = "none" THEN s3 ELSE disconnectEach(s3, rest)
    IN  [s4 EXCEPT !.peer = "none", !.isConnected = FALSE]

\* The page's 'beforeunload' listener: peerManager.disconnect(), after which
\* every connection and call of the page is closed, then audioManager.stop(),
\* whose stopAudio() drops the local stream and awaits the closing of the
\* audio context.
Unload(n) ==
    /\ n \in budget.users
    /\ node[n].peer # "none"
    /\ node' = [node EXCEPT ![n] = [disconnect(@, n) EXCEPT !.stopping = @ \/ node[n].audio]]
    /\ dc' = closedAll(dc, n, {"connecting", "open"})
    /\ mc' = closedAll(mc, n, {"calling", "open", "streaming"})
    /\ wire' = [e \in Ends |-> IF e[2] = n THEN << >> ELSE wire[e]]
    /\ UNCHANGED <<timers, pingSeq, budget>>

-----------------------------------------------------------------------------
Next ==
    \/ \E n \in Nodes : StartAudio(n)
    \/ \E n \in Nodes : CreateSession(n)
    \/ \E n \in Nodes, v \in Inputs : TypeId(n, v)
    \/ \E n \in Nodes : JoinSession(n)
    \/ \E n \in Nodes : PeerOpen(n)
    \/ \E e \in Ends : PeerUnavailable(e[1], e[2])
    \/ \E e \in Ends : ConnectionEvent(e[1], e[2])
    \/ \E e \in Ends : CallEvent(e[1], e[2])
    \/ \E e \in Ends : ConnOpen(e[1], e[2])
    \/ \E e \in Ends : ConnClose(e[1], e[2])
    \/ \E e \in Ends : DeliverData(e[1], e[2])
    \/ \E e \in Ends : CallStream(e[1], e[2])
    \/ \E e \in Ends : CallClose(e[1], e[2])
    \/ \E e \in Ends : PingTick(e[1], e[2])
    \/ \E e \in Ends : InitialPing(e[1], e[2])
    \/ \E e \in Ends : ClickDisconnect(e[1], e[2])
    \/ \E n \in Nodes : ForcePingAll(n)
    \/ \E n \in Nodes : DebugCallback(n)

Spec == Init /\ [][Next]_vars

-----------------------------------------------------------------------------
\* SpecMon: page A and its latency monitor over many pings.  Only the user of
\* A acts; the page of B is the environment: it connects to A's session with
\* a data channel, answers each latency-ping as the data listener of
\* startMonitoring does, and may send a latency-pong nobody asked for.

InitMon ==
    Loaded([pings |-> MonPings, force |-> MaxForce, inject |-> MaxInject,
            users |-> {"A"}, rtts |-> {20}, flight |-> MaxFlight,
            changes |-> 0, errors |-> 0, peers |-> 1, ticks |-> 0])

\* The page of p calls peer.connect(n).
RemoteConnects(p, n) ==
    /\ p \notin budget.users
    /\ dc[<<p, n>>] = "none"
    /\ dc' = [dc EXCEPT ![<<p, n>>] = "connecting"]
    /\ node' = [node EXCEPT ![p].outbound = @ \cup {n}]
    /\ UNCHANGED <<mc, wire, timers, pingSeq, budget>>

\* The page of p receives the next message of n; to a latency-ping its
\* listener answers a latency-pong with the same id and timestamp.
RemoteEcho(p, n) ==
    /\ p \notin budget.users
    /\ wire[<<n, p>>] # << >>
    /\ LET msg  == Head(wire[<<n, p>>])
           rest == [wire EXCEPT ![<<n, p>>] = Tail(@)]
       IN  wire' = IF IsType(msg, "latency-ping") /\ dc[<<n, p>>] = "open"
                   THEN Send(rest, p, n, MonitorEcho(msg, 1))
                   ELSE rest
    /\ UNCHANGED <<node, dc, mc, timers, pingSeq, budget>>

\* The page of p sends a latency-pong whose id is 0, which no ping carries,
\* or the id of the last ping sent so far.
RemoteInject(p, n) ==
    /\ p \notin budget.users
    /\ budget.inject > 0
    /\ dc[<<n, p>>] = "open"
    /\ budget' = [budget EXCEPT !.inject = @ - 1]
    /\ \E id \in {0, pingSeq} :
          wire' = Send(wire, p, n, <<Pong(Ping(id))>>)
    /\ UNCHANGED <<node, dc, mc, timers, pingSeq>>

NextMon ==
    \/ StartAudio("A")
    \/ CreateSession("A")
    \/ PeerOpen("A")
    \/ RemoteConnects("B", "A")
    \/ ConnectionEvent("A", "B")
    \/ ConnOpen("A", "B")
    \/ ConnClose("A", "B")
    \/ DeliverData("B", "A")
    \/ RemoteEcho("B", "A")
    \/ RemoteInject("B", "A")
    \/ PingTick("A", "B")
    \/ InitialPing("A", "B")
    \/ ForcePingAll("A")
    \/ DebugCallback("A")
    \/ ClickDisconnect("A", "B")

SpecMon == InitMon /\ [][NextMon]_vars

-----------------------------------------------------------------------------
\* SpecUI: the users of A and B also change the audio device and create a
\* session a second time; nobody uses the console.

InitUI ==
    Loaded([pings |-> UIPings, force |-> 0, inject |-> 0,
            users |-> {"A", "B"}, rtts |-> {20}, flight |-> 2 * UIPings + 1,
            changes |-> MaxChanges, errors |-> 0, peers |-> MaxPeers, ticks |-> 0])

NextUI ==
    \/ \E n \in Nodes : StartAudio(n)
    \/ \E n \in Nodes : ChangeDevice(n)
    \/ \E n \in Nodes : AudioClosed(n)
    \/ \E n \in Nodes : CreateSession(n)
    \/ \E n \in Nodes, v \in Inputs : TypeId(n, v)
    \/ \E n \in Nodes : JoinSession(n)
    \/ \E n \in Nodes : PeerOpen(n)
    \/ \E e \in Ends : PeerUnavailable(e[1], e[2])
    \/ \E e \in Ends : ConnectionEvent(e[1], e[2])
    \/ \E e \in Ends : CallEvent(e[1], e[2])
    \/ \E e \in Ends : ConnOpen(e[1], e[2])
    \/ \E e \in Ends : ConnClose(e[1], e[2])
    \/ \E e \in Ends : DeliverData(e[1], e[2])
    \/ \E e \in Ends : CallStream(e[1], e[2])
    \/ \E e \in Ends : CallClose(e[1], e[2])
    \/ \E e \in Ends : PingTick(e[1], e[2])
    \/ \E e \in Ends : InitialPing(e[1], e[2])
    \/ \E e \in Ends : ClickDisconnect(e[1], e[2])

SpecUI == InitUI /\ [][NextUI]_vars

-----------------------------------------------------------------------------
\* SpecErr: connections and calls of the session of A and B fail, and after
\* a failed join the user of B joins again or creates a session.

InitErr ==
    Loaded([pings |-> UIPings, force |-> 0, inject |-> 0,
            users |-> {"A", "B"}, rtts |-> {20}, flight |-> 2 * UIPings + 1,
            changes |-> 0, errors |-> MaxErrors, peers |-> MaxPeers, ticks |-> 0])

NextErr ==
    \/ \E n \in Nodes : StartAudio(n)
    \/ \E n \in Nodes : CreateSession(n)
    \/ \E n \in Nodes, v \in Inputs : TypeId(n, v)
    \/ \E n \in Nodes : JoinSession(n)
    \/ \E n \in Nodes : PeerOpen(n)
    \/ \E e \in Ends : PeerUnavailable(e[1], e[2])
    \/ \E e \in Ends : ConnectionEvent(e[1], e[2])
    \/ \E e \in Ends : CallEvent(e[1], e[2])
    \/ \E e \in Ends : ConnOpen(e[1], e[2])
    \/ \E e \in Ends : ConnClose(e[1], e[2])
    \/ \E e \in Ends : ConnError(e[1], e[2])
    \/ \E e \in Ends : DeliverData(e[1], e[2])
    \/ \E e \in Ends : CallStream(e[1], e[2])
    \/ \E e \in Ends : CallClose(e[1], e[2])
    \/ \E e \in Ends : CallError(e[1], e[2])
    \/ \E e \in Ends : PingTick(e[1], e[2])
    \/ \E e \in Ends : InitialPing(e[1], e[2])
    \/ \E e \in Ends : ClickDisconnect(e[1], e[2])

SpecErr == InitErr /\ [][NextErr]_vars

-----------------------------------------------------------------------------
\* SpecStats: page A with the revision of LatencyMonitor that reads the
\* round-trip time from RTCPeerConnection.getStats() (part_002:6-425) in the
\* place of the ping/pong monitor.  The page of B is the environment: it
\* connects to A's session and calls A.

\* A reading of the history, with the place that produced it.
Reading(r, j, from) == [rtt |-> r, jitter |-> j, from |-> from]

\* What updateLatencyDisplayWithFallback can draw: 30 + floor(random * 40)
\* and 5 + floor(random * 10), at the ends of their ranges.
FallbackRtt == {30, 69}
FallbackJitter == {5, 14}

\* The jitter that getStats() reports, in ms.
StatsJitter == {3}

RECURSIVE SumRtt(_)
SumRtt(h) == IF h = << >> THEN 0 ELSE Head(h).rtt + SumRtt(Tail(h))

RECURSIVE SumJitter(_)
SumJitter(h) == IF h = << >> THEN 0 ELSE Head(h).jitter + SumJitter(Tail(h))

\* calculateLatencyStats of the getStats monitor: the averages of the history.
averageLatencyStats(s, p) ==
    IF ~Has(s.latencyHistory, p) \/ Len(s.latencyHistory[p]) = 0
    THEN [avg |-> 0, jitter |-> 0]
    ELSE LET history == s.latencyHistory[p]
         IN  [ avg    |-> Round(SumRtt(history), Len(history)),
               jitter |-> Round(SumJitter(history), Len(history)) ]

\* updateLatencyDisplay of the getStats monitor.
showLatencyStats(s, p) ==
    LET stats == averageLatencyStats(s, p)
    IN  IF Has(s.meters, p)
        THEN [s EXCEPT !.meters[p] =
                 [ text    |-> "numeric",
                   avg     |-> stats.avg,
                   jitter  |-> stats.jitter,
                   quality |-> getLatencyQuality(stats.avg, stats.jitter) ]]
        ELSE s

\* The reading x is pushed on p's history, which is cut to historyLength,
\* and the display is updated.
pushReading(s, p, x) ==
    LET old == IF Has(s.latencyHistory, p) THEN s.latencyHistory[p] ELSE << >>
    IN  showLatencyStats([s EXCEPT !.latencyHistory = Put(@, p, Trim(Append(old, x)))], p)

\* updateLatencyDisplayWithFallback with the values r and j drawn.
updateLatencyDisplayWithFallback(s, p, r, j) == pushReading(s, p, Reading(r, j, "fallback"))

\* startMonitoring of the getStats monitor: the history is emptied and the
\* interval is set anew; the 100 ms timeout and the data listener of
\* setupStatsHandler are in StatsOpen.
startStatsMonitoring(s, p) ==
    [s EXCEPT !.latencyHistory = Put(@, p, << >>),
              !.latIntervals = @ \cup {p}]

\* The 'open' listener of handleConnection on a connection received by
\* peer.on('connection'), with the getStats monitor: addPeerToList,
\* startMonitoring, and the audio-settings message.
StatsOpen(n, p) ==
    /\ dc[<<n, p>>] = "connecting"
    /\ dc[<<p, n>>] \in {"connecting", "open"}
    /\ ~Outbound(n, p)
    /\ dc' = [dc EXCEPT ![<<n, p>>] = "open"]
    /\ node' = [node EXCEPT ![n] = startStatsMonitoring(addPeerToList(@, p), p)]
    /\ timers' = [timers EXCEPT ![<<n, p>>] = [initial   |-> @.initial + 1,
                                                listeners |-> @.listeners + 1]]
    /\ wire' = Send(wire, n, p, <<Msg("audio-settings", 0)>>)
    /\ UNCHANGED <<mc, pingSeq, budget>>

\* updateLatencyStats up to its await: without a call in the registry the
\* fallback is used at once, else getStats() is called.
updateLatencyStats(s, n, p, r, j) ==
    IF p \notin s.calls
    THEN updateLatencyDisplayWithFallback(s, p, r, j)
    ELSE [s EXCEPT !.getStats = Put(@, p, IF Has(@, p) THEN @[p] + 1 ELSE 1)]

\* The setInterval callback of the getStats monitor (every 2 s).
StatsTick(n, p) ==
    /\ p \in node[n].latIntervals
    /\ budget.ticks > 0
    /\ budget' = [budget EXCEPT !.ticks = @ - 1]
    /\ \E r \in FallbackRtt, j \in FallbackJitter :
          node' = [node EXCEPT ![n] = updateLatencyStats(@, n, p, r, j)]
    /\ UNCHANGED <<dc, mc, wire, timers, pingSeq>>

\* The setTimeout callback of the getStats monitor (100 ms).
StatsTimeout(n, p) ==
    /\ timers[<<n, p>>].initial > 0
    /\ budget.ticks > 0
    /\ budget' = [budget EXCEPT !.ticks = @ - 1]
    /\ timers' = [timers EXCEPT ![<<n, p>>].initial = @ - 1]
    /\ \E r \in FallbackRtt, j \in FallbackJitter :
          node' = [node EXCEPT ![n] = updateLatencyStats(@, n, p, r, j)]
    /\ UNCHANGED <<dc, mc, wire, pingSeq>>

\* stopMonitoring of the getStats monitor.
stopStatsMonitoring(s, p) ==
    IF p \in s.latIntervals
    THEN [s EXCEPT !.latIntervals = @ \ {p}, !.latencyHistory = Delete(@, p)]
    ELSE s

\* 'close' on page n's connection to p, with the getStats monitor:
\* handlePeerDisconnection, whose stopMonitoring is the one above.
StatsClose(n, p) ==
    /\ dc[<<n, p>>] = "open"
    /\ dc' = [dc EXCEPT ![<<n, p>>] = "closed"]
    /\ wire' = [wire EXCEPT ![<<p, n>>] = << >>]
    /\ node' = [node EXCEPT ![n] = stopStatsMonitoring(handlePeerDisconnection(@, p), p)]
    /\ UNCHANGED <<mc, timers, pingSeq, budget>>

\* getStats() resolves with a report that holds a round-trip time: the
\* reading is pushed on the history.  Without a history the push throws a
\* TypeError, which the catch answers with the fallback.
StatsFound(n, p) ==
    /\ Has(node[n].getStats, p) /\ node[n].getStats[p] > 0
    /\ LET s == [node[n] EXCEPT !.getStats[p] = @ - 1]
       IN  IF Has(s.latencyHistory, p)
           THEN \E r \in budget.rtts, j \in StatsJitter :
                   node' = [node EXCEPT ![n] = pushReading(s, p, Reading(r, j, "getStats"))]
           ELSE \E r \in FallbackRtt, j \in FallbackJitter :
                   node' = [node EXCEPT ![n] = updateLatencyDisplayWithFallback(s, p, r, j)]
    /\ UNCHANGED <<dc, mc, wire, timers, pingSeq, budget>>

\* getStats() resolves without a round-trip time, or rejects: the fallback.
StatsMissing(n, p) ==
    /\ Has(node[n].getStats, p) /\ node[n].getStats[p] > 0
    /\ \E r \in FallbackRtt, j \in FallbackJitter :
          node' = [node EXCEPT ![n] =
                      updateLatencyDisplayWithFallback([@ EXCEPT !.getStats[p] = @ - 1],
                                                       p, r, j)]
    /\ UNCHANGED <<dc, mc, wire, timers, pingSeq, budget>>

\* The page of p calls n with peer.call.
RemoteCalls(p, n) ==
    /\ p \notin budget.users
    /\ dc[<<p, n>>] \in {"connecting", "open"}
    /\ mc[<<p, n>>] = "none"
    /\ mc' = [mc EXCEPT ![<<p, n>>] = "calling"]
    /\ UNCHANGED <<node, dc, wire, timers, pingSeq, budget>>

InitStats ==
    Loaded([pings |-> 0, force |-> 0, inject |-> 0,
            users |-> {"A"}, rtts |-> {20}, flight |-> 1,
            changes |-> 0, errors |-> 0, peers |-> 1, ticks |-> StatTicks])

NextStats ==
    \/ StartAudio("A")
    \/ CreateSession("A")
    \/ PeerOpen("A")
    \/ RemoteConnects("B", "A")
    \/ ConnectionEvent("A", "B")
    \/ StatsOpen("A", "B")
    \/ StatsClose("A", "B")
    \/ RemoteCalls("B", "A")
    \/ CallEvent("A", "B")
    \/ StatsTick("A", "B")
    \/ StatsTimeout("A", "B")
    \/ StatsFound("A", "B")
    \/ StatsMissing("A", "B")

SpecStats == InitStats /\ [][NextStats]_vars

-----------------------------------------------------------------------------
\* SpecIso: page A in a session with two peers.  The pages of B and C are the
\* environment: each connects to A's session, calls A and answers A's pings;
\* channels close and fail.

InitIso ==
    Loaded([pings |-> IsoPings, force |-> 0, inject |-> 0,
            users |-> {"A"}, rtts |-> {20}, flight |-> MaxFlight,
            changes |-> 0, errors |-> MaxErrors, peers |-> 1, ticks |-> 0])

NextIso ==
    \/ StartAudio("A")
    \/ CreateSession("A")
    \/ PeerOpen("A")
    \/ \E p \in {"B", "C"} : RemoteConnects(p, "A")
    \/ \E p \in {"B", "C"} : ConnectionEvent("A", p)
    \/ \E p \in {"B", "C"} : ConnOpen("A", p)
    \/ \E p \in {"B", "C"} : RemoteCalls(p, "A")
    \/ \E p \in {"B", "C"} : CallEvent("A", p)
    \/ \E p \in {"B", "C"} : CallStream("A", p)
    \/ \E p \in {"B", "C"} : ConnClose("A", p)
    \/ \E p \in {"B", "C"} : CallClose("A", p)
    \/ \E p \in {"B", "C"} : ConnError("A", p)
    \/ \E p \in {"B", "C"} : CallError("A", p)
    \/ \E p \in {"B", "C"} : DeliverData(p, "A")
    \/ \E p \in {"B", "C"} : RemoteEcho(p, "A")
    \/ \E p \in {"B", "C"} : PingTick("A", p)
    \/ \E p \in {"B", "C"} : InitialPing("A", p)
    \/ \E p \in {"B", "C"} : ClickDisconnect("A", p)

SpecIso == InitIso /\ [][NextIso]_vars

-----------------------------------------------------------------------------
\* SpecUnload: page A in a session with the environment peers B and C is
\* unloaded at any moment.

InitUnload ==
    Loaded([pings |-> UnloadPings, force |-> 0, inject |-> 0,
            users |-> {"A"}, rtts |-> {20}, flight |-> MaxFlight,
            changes |-> 0, errors |-> MaxErrors, peers |-> 1, ticks |-> 0])

NextUnload ==
    \/ StartAudio("A")
    \/ CreateSession("A")
    \/ PeerOpen("A")
    \/ Unload("A")
    \/ \E p \in {"B", "C"} : RemoteConnects(p, "A")
    \/ \E p \in {"B", "C"} : ConnectionEvent("A", p)
    \/ \E p \in {"B", "C"} : ConnOpen("A", p)
    \/ \E p \in {"B", "C"} : RemoteCalls(p, "A")
    \/ \E p \in {"B", "C"} : CallEvent("A", p)
    \/ \E p \in {"B", "C"} : CallStream("A", p)
    \/ \E p \in {"B", "C"} : ConnClose("A", p)
    \/ \E p \in {"B", "C"} : CallClose("A", p)
    \/ \E p \in {"B", "C"} : DeliverData(p, "A")
    \/ \E p \in {"B", "C"} : RemoteEcho(p, "A")
    \/ \E p \in {"B", "C"} : PingTick("A", p)
    \/ \E p \in {"B", "C"} : InitialPing("A", p)
    \/ \E p \in {"B", "C"} : ConnError("A", p)
    \/ \E p \in {"B", "C"} : CallError("A", p)

SpecUnload == InitUnload /\ [][NextUnload]_vars

-----------------------------------------------------------------------------
\* SpecCalc: the statistics of the latency monitor on histories of up to
\* CalcPings round trips.  B connects to A's session and answers A's pings;
\* each round trip takes one of the times of Samples.

\* Round-trip times, in ms, around the limits of getLatencyQuality.
Samples == {41, 42, 43, 56, 57, 71, 72, 99, 100}

InitCalc ==
    Loaded([pings |-> CalcPings, force |-> 0, inject |-> 0,
            users |-> {"A"}, rtts |-> Samples, flight |-> 1,
            changes |-> 0, errors |-> 0, peers |-> 1, ticks |-> 0])

NextCalc ==
    \/ StartAudio("A")
    \/ CreateSession("A")
    \/ PeerOpen("A")
    \/ RemoteConnects("B", "A")
    \/ ConnectionEvent("A", "B")
    \/ ConnOpen("A", "B")
    \/ DeliverData("B", "A")
    \/ RemoteEcho("B", "A")
    \/ PingTick("A", "B")
    \/ InitialPing("A", "B")

SpecCalc == InitCalc /\ [][NextCalc]_vars

-----------------------------------------------------------------------------
\* SpecRoll: the history of the latency monitor over more round trips than
\* it holds.  B connects to A's session and answers A's pings; each round
\* trip takes one of two times, so that the order of the samples shows.

InitRoll ==
    Loaded([pings |-> RollPings, force |-> 0, inject |-> 0,
            users |-> {"A"}, rtts |-> {20, 21}, flight |-> 1,
            changes |-> 0, errors |-> 0, peers |-> 1, ticks |-> 0])

NextRoll ==
    \/ StartAudio("A")
    \/ CreateSession("A")
    \/ PeerOpen("A")
    \/ RemoteConnects("B", "A")
    \/ ConnectionEvent("A", "B")
    \/ ConnOpen("A", "B")
    \/ ConnClose("A", "B")
    \/ DeliverData("B", "A")
    \/ RemoteEcho("B", "A")
    \/ PingTick("A", "B")
    \/ InitialPing("A", "B")

SpecRoll == InitRoll /\ [][NextRoll]_vars

-----------------------------------------------------------------------------
\* SpecCross: page A monitors two peers.  B and C connect to A's session and
\* answer A's pings; either of them may also send a latency-pong that
\* carries the id of A's last ping, whichever peer that ping went to.

InitCross ==
    Loaded([pings |-> CrossPings, force |-> 0, inject |-> MaxInject,
            users |-> {"A"}, rtts |-> {20}, flight |-> MaxFlight,
            changes |-> 0, errors |-> 0, peers |-> 1, ticks |-> 0])

NextCross ==
    \/ StartAudio("A")
    \/ CreateSession("A")
    \/ PeerOpen("A")
    \/ \E p \in {"B", "C"} : RemoteConnects(p, "A")
    \/ \E p \in {"B", "C"} : ConnectionEvent("A", p)
    \/ \E p \in {"B", "C"} : ConnOpen("A", p)
    \/ \E p \in {"B", "C"} : DeliverData(p, "A")
    \/ \E p \in {"B", "C"} : RemoteEcho(p, "A")
    \/ \E p \in {"B", "C"} : RemoteInject(p, "A")
    \/ \E p \in {"B", "C"} : PingTick("A", p)
    \/ \E p \in {"B", "C"} : InitialPing("A", p)

SpecCross == InitCross /\ [][NextCross]_vars

-----------------------------------------------------------------------------
\* SpecRejoin: peers that connect a second time.  B and C connect to A's
\* session and call it; the Peer of either may open a second data connection
\* to A while its first one is open, and the first one closes afterwards.
\* No ping is sent.

\* peer.on('connection') on page n for a second connection of p: PeerJS
\* emits it for every peer.connect of the remote side.  handleConnection
\* stores the new connection in the place of the open one, whose listeners
\* stay attached.
Reconnection(n, p) ==
    /\ p \notin budget.users
    /\ Registered(n)
    /\ dc[<<n, p>>] = "open"
    /\ p \in node[n].connections
    /\ p \notin node[n].superseded
    /\ dc' = [dc EXCEPT ![<<n, p>>] = "connecting"]
    /\ node' = [node EXCEPT ![n] = handleConnection([@ EXCEPT !.superseded = @ \cup {p}], p)]
    /\ UNCHANGED <<mc, wire, timers, pingSeq, budget>>

\* 'close' on the earlier connection of p on page n: its listener calls
\* handlePeerDisconnection(conn.peer).
SupersededClose(n, p) ==
    /\ p \in node[n].superseded
    /\ node' = [node EXCEPT ![n] = handlePeerDisconnection([@ EXCEPT !.superseded = @ \ {p}], p)]
    /\ UNCHANGED <<dc, mc, wire, timers, pingSeq, budget>>

InitRejoin ==
    Loaded([pings |-> 0, force |-> 0, inject |-> 0,
            users |-> {"A"}, rtts |-> {20}, flight |-> MaxFlight,
            changes |-> 0, errors |-> 0, peers |-> 1, ticks |-> 0])

NextRejoin ==
    \/ StartAudio("A")
    \/ CreateSession("A")
    \/ PeerOpen("A")
    \/ \E p \in {"B", "C"} : RemoteConnects(p, "A")
    \/ \E p \in {"B", "C"} : ConnectionEvent("A", p)
    \/ \E p \in {"B", "C"} : ConnOpen("A", p)
    \/ \E p \in {"B", "C"} : RemoteCalls(p, "A")
    \/ \E p \in {"B", "C"} : CallEvent("A", p)
    \/ \E p \in {"B", "C"} : CallStream("A", p)
    \/ \E p \in {"B", "C"} : Reconnection("A", p)
    \/ \E p \in {"B", "C"} : SupersededClose("A", p)
    \/ \E p \in {"B", "C"} : ConnClose("A", p)
    \/ \E p \in {"B", "C"} : CallClose("A", p)

SpecRejoin == InitRejoin /\ [][NextRejoin]_vars

-----------------------------------------------------------------------------
\* SpecEcho: page A answering the pings of a peer.  B connects to A's
\* session, answers A's pings and sends latency-pings of its own; the user
\* of A may call forcePingAll, which stops and starts the monitoring of B on
\* the same connection.

\* The page of p sends a latency-ping; its id is one of p's own.
RemotePings(p, n) ==
    /\ p \notin budget.users
    /\ budget.inject > 0
    /\ dc[<<n, p>>] = "open"
    /\ Len(wire[<<p, n>>]) < budget.flight
    /\ budget' = [budget EXCEPT !.inject = @ - 1]
    /\ wire' = Send(wire, p, n, <<Ping(0)>>)
    /\ UNCHANGED <<node, dc, mc, timers, pingSeq>>

InitEcho ==
    Loaded([pings |-> MaxPings, force |-> MaxForce, inject |-> EchoPings,
            users |-> {"A"}, rtts |-> {20}, flight |-> MaxFlight,
            changes |-> 0, errors |-> 0, peers |-> 1, ticks |-> 0])

NextEcho ==
    \/ StartAudio("A")
    \/ CreateSession("A")
    \/ PeerOpen("A")
    \/ RemoteConnects("B", "A")
    \/ ConnectionEvent("A", "B")
    \/ ConnOpen("A", "B")
    \/ ConnClose("A", "B")
    \/ DeliverData("B", "A")
    \/ RemoteEcho("B", "A")
    \/ RemotePings("B", "A")
    \/ PingTick("A", "B")
    \/ InitialPing("A", "B")
    \/ ForcePingAll("A")
    \/ DebugCallback("A")
    \/ ClickDisconnect("A", "B")

SpecEcho == InitEcho /\ [][NextEcho]_vars

-----------------------------------------------------------------------------
\* SpecData: B connects to A's session, answers A's pings and sends data
\* messages that no listener of A knows.

\* The types that a data listener of the page tests for.
Recognized == {"latency-ping", "latency-pong", "stats-update", "audio-settings", "chat"}

\* null, a string, an object without a type and an object of an unknown
\* type, the last two with the field pingId set to id.
Unknown(id) ==
    { [Msg("", 0) EXCEPT !.kind = "null"],
      [Msg("", 0) EXCEPT !.kind = "string"],
      Msg("", id),
      Msg("mystery", id) }

\* The page of p sends such a message, with the id of the last ping sent.
RemoteSends(p, n) ==
    /\ p \notin budget.users
    /\ budget.inject > 0
    /\ dc[<<n, p>>] = "open"
    /\ budget' = [budget EXCEPT !.inject = @ - 1]
    /\ \E msg \in Unknown(pingSeq) : wire' = Send(wire, p, n, <<msg>>)
    /\ UNCHANGED <<node, dc, mc, timers, pingSeq>>

InitData ==
    Loaded([pings |-> DataPings, force |-> 0, inject |-> MaxInject,
            users |-> {"A"}, rtts |-> {20}, flight |-> MaxFlight,
            changes |-> 0, errors |-> 0, peers |-> 1, ticks |-> 0])

NextData ==
    \/ StartAudio("A")
    \/ CreateSession("A")
    \/ PeerOpen("A")
    \/ RemoteConnects("B", "A")
    \/ ConnectionEvent("A", "B")
    \/ ConnOpen("A", "B")
    \/ DeliverData("B", "A")
    \/ RemoteEcho("B", "A")
    \/ RemoteSends("B", "A")
    \/ PingTick("A", "B")
    \/ InitialPing("A", "B")

SpecData == InitData /\ [][NextData]_vars

-----------------------------------------------------------------------------
\* SpecLink: page A has created a session under some id and shows its share
\* link; the user of B opens that link, or a link typed by hand.

\* The characters of an id: a letter, a digit, and the characters that a
\* query writes in another way.
IdChars == {"x", "2", " ", "+", "%", "&", "="}

RECURSIVE Strings(_)
Strings(k) ==
    IF k = 0 THEN {<< >>}
    ELSE Strings(k - 1) \cup {Append(v, c) : v \in Strings(k - 1), c \in IdChars}

Ids == Strings(MaxIdLen) \ {<< >>}

\* The query of the URL under which the creating page was opened: none, one
\* parameter, and a name without a value.
Bases == {<< >>, <<"x", "=", "2">>, <<"x">>}

\* Queries typed by hand: join=x, join= (no id), join=x&join=2 (the name
\* twice), 2=x&join=%2B&x (between other parameters), join (no value).
Typed ==
    { JoinName \o <<"=", "x">>,
      JoinName \o <<"=">>,
      JoinName \o <<"=", "x", "&">> \o JoinName \o <<"=", "2">>,
      <<"2", "=", "x", "&">> \o JoinName \o <<"=", "%", "2", "B", "&", "x">>,
      JoinName }

\* The page that created a session under the id peerId, opened with the
\* query q: Start Audio, Create Session and the Peer's 'open' have run.
Sharing(q, peerId) ==
    updateShareUrl(
        updateUIState([updateUIState([NodeInit EXCEPT !.href = q, !.audio = TRUE],
                                     "audio_ready")
                          EXCEPT !.peer = "open", !.gen = 1, !.isConnected = TRUE,
                                 !.input = peerId],
                      "session_created"))

InitLink ==
    /\ \E q \in Bases : \E peerId \in Ids :
          node = [n \in Nodes |-> IF n = "A" THEN Sharing(q, peerId) ELSE NodeInit]
    /\ dc = [e \in Ends |-> "none"]
    /\ mc = [e \in Ends |-> "none"]
    /\ wire = [e \in Ends |-> << >>]
    /\ timers = [e \in Ends |-> [initial |-> 0, listeners |-> 0]]
    /\ pingSeq = 0
    /\ budget = [pings |-> 0, force |-> 0, inject |-> 0,
                 users |-> {"B"}, rtts |-> {20}, flight |-> 0,
                 changes |-> 0, errors |-> 0, peers |-> 1, ticks |-> 0]

\* The user of n opens the page anew under a URL with the query q; the
\* script has not run yet.
Navigate(n, q) ==
    /\ n \in budget.users
    /\ node[n] = NodeInit
    /\ node' = [node EXCEPT ![n] = [NodeInit EXCEPT !.href = q, !.uiState = "loading",
                                                    !.startBtn = FALSE]]
    /\ UNCHANGED <<dc, mc, wire, timers, pingSeq, budget>>

\* App.initialize: UIController.initialize(), which ends with
\* updateUIState('initial'), then checkUrlForJoinParameter().
Initialize(n) ==
    /\ node[n].uiState = "loading"
    /\ node' = [node EXCEPT ![n] = checkUrlForJoinParameter(updateUIState(@, "initial"))]
    /\ UNCHANGED <<dc, mc, wire, timers, pingSeq, budget>>

NextLink ==
    \/ \E m \in Nodes : node[m].share # << >> /\ Navigate("B", node[m].share)
    \/ \E q \in Typed : Navigate("B", q)
    \/ Initialize("B")
    \/ StartAudio("B")

SpecLink == InitLink /\ [][NextLink]_vars

-----------------------------------------------------------------------------
\* The scheduling of the browser: a message in flight on an open connection
\* is delivered, and a timer that is due runs.
Delivery == \E e \in Ends : DeliverData(e[1], e[2])
TimerRuns ==
    \/ \E e \in Ends : PingTick(e[1], e[2]) \/ InitialPing(e[1], e[2])
    \/ \E n \in Nodes : DebugCallback(n)

SpecLive == Spec /\ WF_vars(Delivery) /\ WF_vars(TimerRuns)

-----------------------------------------------------------------------------
\* Properties.

\* n's monitor holds a ping to p that has not been answered.
PendingFor(s, p) == {id \in DOMAIN s.pendingPings : s.pendingPings[id] = p}

\* Page n shows a measured latency for p.
Measured(n, p) ==
    /\ Has(node[n].pingHistory, p)
    /\ Len(node[n].pingHistory[p]) >= 1
    /\ Has(node[n].meters, p)
    /\ node[n].meters[p].text = "numeric"

\* The session of A and B is up: both data channels and both calls.
Established ==
    /\ dc[<<"A", "B">>] = "open" /\ dc[<<"B", "A">>] = "open"
    /\ mc[<<"A", "B">>] = "streaming" /\ mc[<<"B", "A">>] = "streaming"

\* Nobody has called forcePingAll from the console.
NoConsole == budget.force = MaxForce

\* C1: a peer is in the result of getConnectedPeers() exactly when its data
\* channel is open (not connecting, not closed).
C1_ConnectedPeersAreOpen ==
    \A e \in Ends :
        e[2] \in getConnectedPeers(node[e[1]]) <=> dc[e] = "open"

\* C2: whenever a data channel becomes open, inbound or outbound,
\* startMonitoring has been invoked for the peer, so the peer has a ping
\* interval when the step is over.
C2_OpenStartsMonitoring ==
    [][\A e \in Ends :
          (dc[e] # "open" /\ dc'[e] = "open")
              => e[2] \in node'[e[1]].pingIntervals]_vars

C4_TeardownIdempotent ==
    \A e \in Ends :
        LET s     == node[e[1]]
            x     == e[2]
            once  == handlePeerDisconnection(s, x)
            twice == handlePeerDisconnection(once, x)
            knows == x \in s.connections \cup s.calls \cup s.statsIntervals
                            \cup s.pingIntervals \cup s.peerList \cup s.remoteStreams
                            \cup DOMAIN s.meters \cup DOMAIN s.pingHistory
        IN  /\ twice = once
            /\ x \notin once.connections
            /\ x \notin once.calls
            /\ x \notin once.pingIntervals
            /\ ~Has(once.pingHistory, x)
            /\ ~knows => once = s

\* C5: a peer has an entry in connections or calls exactly when its data
\* channel or its media channel exists and has not been closed.
C5_RegistryIffChannelLive ==
    \A e \in Ends :
        (e[2] \in node[e[1]].connections \cup node[e[1]].calls)
            <=> (dc[e] \in {"connecting", "open"}
                    \/ mc[e] \in {"calling", "open", "streaming"})

\* C6: in the outbound join the media call to a peer is started only when
\* the data channel to that peer has reported open.
C6_CallAfterDataOpen ==
    [][\A e \in Ends :
          (e[2] \in node'[e[1]].outbound /\ mc[e] = "none" /\ mc'[e] # "none")
              => dc'[e] = "open"]_vars

C6_Witness ==
    \E e \in Ends :
        /\ Outbound(e[1], e[2])
        /\ mc[e] = "calling"
        /\ e[2] \in node[e[1]].calls
        /\ dc[e] = "open"

C8_HistoryBounded ==
    \A n \in Nodes :
        \A p \in DOMAIN node[n].pingHistory :
            Len(node[n].pingHistory[p]) <= historyLength

\* A has monitored B without a stop since the connection opened, and every
\* one of its historyLength + 1 pings has been answered by B: the history
\* holds historyLength samples.
C8_Witness ==
    /\ dc[<<"A", "B">>] = "open"
    /\ "B" \in node["A"].pingIntervals
    /\ budget.force = MaxForce
    /\ budget.inject = MaxInject
    /\ pingSeq = historyLength + 1
    /\ PendingFor(node["A"], "B") = {}
    /\ wire[<<"A", "B">>] = << >> /\ wire[<<"B", "A">>] = << >>
    /\ Len(node["A"].pingHistory["B"]) = historyLength

\* C9: stopMonitoring(p) leaves no ping interval, no history and no pending
\* ping for p.
C9_StopDiscardsAll ==
    \A e \in Ends :
        LET s == stopMonitoring(node[e[1]], e[2])
        IN  /\ e[2] \notin s.pingIntervals
            /\ ~Has(s.pingHistory, e[2])
            /\ PendingFor(s, e[2]) = {}

\* C10: once handlePeerDisconnection(p) has run, a 'stream' event of p's call
\* creates no remote stream, no remote meter and no registry entry.
C10_StreamAfterTeardownIgnored ==
    [][\A e \in Ends :
          LET s == node[e[1]]
              t == node'[e[1]]
          IN  (/\ mc[e] \in {"calling", "open"}
               /\ mc'[e] = "streaming"
               /\ e[2] \notin s.calls)
                  => /\ t.remoteStreams = s.remoteStreams
                     /\ DOMAIN t.meters = DOMAIN s.meters
                     /\ t.connections = s.connections
                     /\ t.calls = s.calls]_vars

\* C11: when page n's data channel to p closes while a ping of n to p is
\* unanswered, the close step itself leaves p without ping interval, without
\* registry entry and out of the displayed peer list.
C11_CloseWithPingPending ==
    [][\A e \in Ends :
          LET n == e[1]
              p == e[2]
          IN  (/\ dc[e] = "open" /\ dc'[e] = "closed"
               /\ PendingFor(node[n], p) # {})
                  => /\ p \notin node'[n].pingIntervals
                     /\ p \notin node'[n].connections
                     /\ p \notin node'[n].calls
                     /\ p \notin node'[n].peerList]_vars

\* A's channel to B has closed while A's ping was on its way to B: the ping
\* is still in flight, and A neither monitors nor lists B.
C11_Witness ==
    /\ dc[<<"A", "B">>] = "closed"
    /\ \E i \in 1..Len(wire[<<"A", "B">>]) : wire[<<"A", "B">>][i].type = "latency-ping"
    /\ "B" \notin node["A"].pingIntervals
    /\ "B" \notin node["A"].connections \cup node["A"].calls \cup node["A"].peerList

\* C12: a ping callback, periodic or initial, that finds the channel not
\* open sends nothing and leaves the monitor as stopMonitoring leaves it,
\* without ping interval for the peer; this holds for the callback's body in
\* every state and for every step in which the initial timer runs.
C12_PingOnClosedChannelStops ==
    [][\A e \in Ends :
          LET n  == e[1]
              p  == e[2]
              st == sendPing(Now(n), n, p)
          IN  dc[e] # "open" =>
                 /\ st.w = wire /\ st.seq = pingSeq /\ st.t = timers
                 /\ st.s = stopMonitoring(node[n], p)
                 /\ p \notin st.s.pingIntervals
                 /\ timers'[e].initial < timers[e].initial =>
                        /\ wire' = wire /\ pingSeq' = pingSeq
                        /\ node'[n] = stopMonitoring(node[n], p)
                        /\ p \notin node'[n].pingIntervals]_vars

\* The initial timer of A's monitor for B has run after the channel closed:
\* no ping was ever sent.
C12_Witness ==
    /\ dc[<<"A", "B">>] = "closed"
    /\ timers[<<"A", "B">>].listeners >= 1
    /\ timers[<<"A", "B">>].initial = 0
    /\ pingSeq = 0
    /\ NoConsole
    /\ "B" \notin node["A"].pingIntervals

\* C13: when the data channel and the media channel of a peer both emit
\* 'close', the teardown takes effect once: the 'close' of the second channel
\* changes nothing on the page.
C13_SecondCloseChangesNothing ==
    [][\A e \in Ends :
          (\/ /\ dc[e] = "open" /\ dc'[e] = "closed"
              /\ mc[e] = "closed" /\ mc'[e] = "closed"
           \/ /\ mc[e] \in {"open", "streaming"} /\ mc'[e] = "closed"
              /\ dc[e] = "closed" /\ dc'[e] = "closed")
              => node'[e[1]] = node[e[1]]]_vars

\* C17: a join with an id that is empty or blank after trimming is refused
\* before any network action: no click handler starts to wait for initPeer
\* or connectToPeer with such an id in the field, and the step in which the
\* refusal is notified constructs no Peer, makes no connection or call and
\* changes nothing on the page but the notification.
C17_BlankIdRefused ==
    [][\A n \in Nodes :
          /\ (Settled(node[n]) /\ node'[n].pending \in {"init", "connect"})
                => trim(node[n].input) # << >>
          /\ (node'[n].notice = "enter-id" /\ node[n].notice # "enter-id")
                => /\ node'[n] = [node[n] EXCEPT !.notice = "enter-id"]
                   /\ UNCHANGED <<dc, mc, wire, timers, pingSeq>>]_vars

\* B's user has clicked Join with a blank id in the field and was refused:
\* B has no Peer, no connection and no call.
C17_Witness ==
    /\ node["B"].notice = "enter-id"
    /\ node["B"].input \in {<< >>, <<" ">>}
    /\ node["B"].peer = "none" /\ node["B"].gen = 0
    /\ node["B"].outbound = {} /\ node["B"].connections = {} /\ node["B"].calls = {}
    /\ node["B"].pending = "idle"
    /\ \A p \in Nodes \ {"B"} : dc[<<"B", p>>] = "none" /\ mc[<<"B", p>>] = "none"

\* C18: a join to an id that no page is registered under ends in a reported
\* failure: once the broker has answered that the peer is unavailable, the
\* join handler reaches the error state, with nothing in the registry.
C18_UnknownIdReported ==
    \A n \in Joiners :
        (node[n].notice = "peer-not-found")
            ~> (node[n].uiState = "error" /\ node[n].connections = {})

\* C19: when the data channel or the media channel of peer p emits 'error',
\* p is torn down: when the step is over p has no registry entry and no ping
\* interval.
C19_ErrorTearsDown ==
    [][\A e \in Ends :
          (/\ budget'.errors < budget.errors
           /\ dc'[e] # dc[e] \/ mc'[e] # mc[e])
              => /\ e[2] \notin node'[e[1]].connections
                 /\ e[2] \notin node'[e[1]].calls
                 /\ e[2] \notin node'[e[1]].pingIntervals]_vars

\* C15: a click on Create Session on a page whose Peer is open leaves the
\* session as it is: the Peer is neither destroyed nor replaced and the
\* registry keeps its entries.
C15_CreateWhileOpenRefused ==
    [][\A n \in Nodes :
          (/\ node[n].peer = "open"
           /\ Settled(node[n])
           /\ node'[n].pending = "create")
              => /\ node'[n].peer = "open"
                 /\ node'[n].gen = node[n].gen
                 /\ node'[n].connections = node[n].connections
                 /\ node'[n].calls = node[n].calls]_vars

\* C16: a join on a page without local audio stream is refused before any
\* network action: while the page has no local stream, no connection it made
\* with peer.connect opens and none gets a registry entry.
C16_NoStreamNoChannel ==
    [][\A e \in Ends :
          (/\ Outbound(e[1], e[2])
           /\ dc[e] = "connecting"
           /\ ~getLocalStream(node[e[1]]))
              => /\ dc'[e] # "open"
                 /\ e[2] \notin node'[e[1]].connections]_vars

\* C14: a provisional fallback reading is never appended to a peer's
\* history: every reading of every history comes from a real measurement.
C14_HistoryHoldsMeasurementsOnly ==
    \A n \in Nodes :
        \A p \in DOMAIN node[n].latencyHistory :
            \A i \in 1..Len(node[n].latencyHistory[p]) :
                node[n].latencyHistory[p][i].from = "getStats"

\* What page n holds for peer q: its registry entries, its ping timers, its
\* round-trip history and its unanswered pings.
PeerView(s, t, n, q) ==
    [ connection |-> q \in s.connections,
      call       |-> q \in s.calls,
      interval   |-> q \in s.pingIntervals,
      timer      |-> t[<<n, q>>],
      history    |-> IF Has(s.pingHistory, q) THEN <<s.pingHistory[q]>> ELSE << >>,
      pending    |-> PendingFor(s, q) ]

\* C20: tearing down or failing one peer p leaves what a page whose script
\* runs holds for every other peer q unchanged: in every state handlePeerDisconnection(p)
\* and stopMonitoring(p) do, and so does every step in which a channel of p
\* closes, by a 'close' event, an 'error' event or the Disconnect button.
C20_PeerIsolation ==
    [][\A e \in Ends :
          LET n == e[1]
              p == e[2]
              s == node[n]
          IN  \A q \in IF n \in budget.users THEN Nodes \ {n, p} ELSE {} :
                 /\ PeerView(handlePeerDisconnection(s, p), timers, n, q)
                        = PeerView(s, timers, n, q)
                 /\ PeerView(stopMonitoring(s, p), timers, n, q)
                        = PeerView(s, timers, n, q)
                 /\ (\/ dc[e] # "closed" /\ dc'[e] = "closed"
                     \/ mc[e] # "closed" /\ mc'[e] = "closed")
                        => PeerView(node'[n], timers', n, q) = PeerView(s, timers, n, q)]_vars

\* A's channel to B has closed and B is gone from A's registry, while A
\* still monitors C, with a sample in C's history and a ping to C unanswered.
C20_Witness ==
    /\ dc[<<"A", "B">>] = "closed"
    /\ "B" \notin node["A"].connections \cup node["A"].pingIntervals
    /\ dc[<<"A", "C">>] = "open"
    /\ "C" \in node["A"].connections
    /\ "C" \in node["A"].pingIntervals
    /\ PendingFor(node["A"], "C") # {}

\* C21: PeerManager.disconnect tears down every peer that is registered
\* when it is called: both channels end closed, the peer has no ping
\* interval, no remote stream and no place in the peer list; afterwards the
\* registry is empty, the page has no Peer and isConnected is false.
C21_DisconnectAll ==
    [][\A n \in Nodes :
          (node[n].peer # "none" /\ node'[n].peer = "none")
              => /\ \A p \in node[n].connections \cup node[n].calls :
                       /\ dc'[<<n, p>>] \notin {"connecting", "open"}
                       /\ mc'[<<n, p>>] \notin {"calling", "open", "streaming"}
                       /\ p \notin node'[n].pingIntervals
                       /\ p \notin node'[n].remoteStreams
                       /\ p \notin node'[n].peerList
                       /\ p \notin node'[n].statsIntervals
                 /\ node'[n].connections = {}
                 /\ node'[n].calls = {}
                 /\ ~node'[n].isConnected]_vars

\* A was unloaded while B and C were both registered with open channels, A
\* monitoring them: a ping to each is still in flight, all of A's channels
\* are closed and A holds nothing for either.
C21_Witness ==
    /\ node["A"].peer = "none" /\ node["A"].gen = 1
    /\ \A p \in {"B", "C"} :
          /\ dc[<<"A", p>>] = "closed" /\ mc[<<"A", p>>] = "closed"
          /\ timers[<<"A", p>>].listeners >= 1
    /\ \E p \in {"B", "C"} :
          \E i \in 1..Len(wire[<<"A", p>>]) : wire[<<"A", p>>][i].type = "latency-ping"
    /\ node["A"].connections = {} /\ node["A"].calls = {}
    /\ node["A"].pingIntervals = {} /\ node["A"].peerList = {}

\* C22: an unanswered ping ages out.  When a monitor stores the record of a
\* new ping to a peer, no record of an older ping to that peer stays: a peer
\* has at most the newest ping outstanding, however many pongs are lost.
C22_SupersededPingAgesOut ==
    [][\A n \in Nodes : \A p \in Nodes :
          \A id \in PendingFor(node'[n], p) \ PendingFor(node[n], p) :
              PendingFor(node'[n], p) = {id}]_vars

\* The latency and the jitter that page n shows for p, once measured.
Shown(n, p) == Has(node[n].meters, p) /\ node[n].meters[p].text = "numeric"

\* C23: the class shown with a latency and a jitter is Good exactly when
\* rtt < 50 and jitter < 15, Medium exactly when it is not Good and rtt < 100
\* and jitter < 30, and Poor otherwise; (49, 14) is Good, (50, 14) is Medium
\* and (100, 0) is Poor.
C23_Classification ==
    \A n \in Nodes : \A p \in Nodes :
        Shown(n, p) =>
            LET m    == node[n].meters[p]
                good == m.avg < 50 /\ m.jitter < 15
                med  == ~good /\ m.avg < 100 /\ m.jitter < 30
            IN  /\ m.quality = "good" <=> good
                /\ m.quality = "medium" <=> med
                /\ m.quality = "poor" <=> (m.avg >= 100 \/ m.jitter >= 30)
                /\ (m.avg = 49 /\ m.jitter = 14) => m.quality = "good"
                /\ (m.avg = 50 /\ m.jitter = 14) => m.quality = "medium"
                /\ (m.avg = 100 /\ m.jitter = 0) => m.quality = "poor"

\* A shows B's link as Medium with a latency of 50 ms and a jitter of 14 ms,
\* after round trips of 43 and 57 ms.
C23_Witness ==
    /\ Shown("A", "B")
    /\ node["A"].pingHistory["B"] = <<43, 57>>
    /\ node["A"].meters["B"] = [text |-> "numeric", avg |-> 50, jitter |-> 14,
                                quality |-> "medium"]

\* C24, as stated: the jitter shown for a history is the mean of the absolute
\* differences of its consecutive samples, exactly, and 0 for a history of
\* one sample.
C24_JitterExactMean ==
    \A n \in Nodes : \A p \in Nodes :
        (Shown(n, p) /\ Has(node[n].pingHistory, p)) =>
            LET h == node[n].pingHistory[p]
            IN  IF Len(h) > 1
                THEN node[n].meters[p].jitter * (Len(h) - 1) = JitterSum(h)
                ELSE node[n].meters[p].jitter = 0

\* C24, amended: the jitter shown for a history is the mean of the absolute
\* differences of its consecutive samples rounded to the nearest integer,
\* halves upwards, and 0 for a history of one sample: j is the jitter of h
\* exactly when  2 * sum - k < 2 * k * j <= 2 * sum + k  for the sum of the
\* k differences.
C24_JitterRoundedMean ==
    \A n \in Nodes : \A p \in Nodes :
        (Shown(n, p) /\ Has(node[n].pingHistory, p)) =>
            LET h == node[n].pingHistory[p]
                k == Len(h) - 1
                j == node[n].meters[p].jitter
            IN  IF k > 0
                THEN /\ 2 * JitterSum(h) - k < 2 * k * j
                     /\ 2 * k * j <= 2 * JitterSum(h) + k
                ELSE j = 0

\* A shows for B the jitter of the history 42, 43, 57: the differences 1 and
\* 14 have the mean 7.5, shown as 8.
C24_Witness ==
    /\ Shown("A", "B")
    /\ node["A"].pingHistory["B"] = <<42, 43, 57>>
    /\ node["A"].meters["B"].jitter = 8

\* C25: when a page takes a latency-ping from an open data channel, it
\* sends on that channel a latency-pong with the ping's pingId and the
\* ping's timestamp, and nothing else.
C25_PongEcho ==
    [][\A e \in Ends :
          LET n == e[1]
              p == e[2]
              q == wire[<<p, n>>]
          IN  (/\ dc[e] = "open" /\ dc'[e] = "open"
               /\ q # << >>
               /\ wire'[<<p, n>>] = Tail(q)
               /\ IsType(Head(q), "latency-ping"))
                  => /\ Len(wire'[e]) > Len(wire[e])
                     /\ \A i \in (Len(wire[e]) + 1)..Len(wire'[e]) :
                           wire'[e][i] = [kind      |-> "object",
                                          type      |-> "latency-pong",
                                          pingId    |-> Head(q).pingId,
                                          timestamp |-> Head(q).timestamp]]_vars

C27_SettingsOnOpen ==
    [][\A e \in Ends :
          (dc[e] = "connecting" /\ dc'[e] = "open")
              => wire'[e] = Append(wire[e], Msg("audio-settings", 0))]_vars

\* C28: stopMonitoring is idempotent.  In every state of a page, a second
\* call of stopMonitoring(p) changes nothing that the first one left, and a
\* call for a peer that has no interval changes nothing at all.
C28_StopIdempotent ==
    \A n \in Nodes : \A p \in Nodes :
        LET s1 == stopMonitoring(node[n], p)
        IN  /\ stopMonitoring(s1, p) = s1
            /\ p \notin node[n].pingIntervals => s1 = node[n]

\* A's monitoring of B was stopped while the data channel stayed open, and
\* the 200 ms timeout has since sent a ping: B has no interval and a ping to
\* B is outstanding, which no further stopMonitoring(B) touches.
C28_Witness ==
    /\ "B" \notin node["A"].pingIntervals
    /\ PendingFor(node["A"], "B") # {}
    /\ timers[<<"A", "B">>].listeners >= 1
    /\ stopMonitoring(node["A"], "B") = node["A"]

\* C29: when a page loaded under a URL whose query carries a join id has
\* initialised, its session id field holds that id and its URL has no join
\* parameter left; the other parameters are as they were.  When the URL is
\* the share link of a page that created a session, the field holds that
\* page's id.
C29_JoinLink ==
    [][\A n \in Nodes :
          (node[n].uiState = "loading" /\ node'[n].uiState # "loading")
              => LET params == parseQuery(node[n].href)
                     id     == searchParamsGet(params, JoinName)
                 IN  /\ id # << >>
                          => /\ node'[n].input = id
                             /\ ~searchParamsHas(parseQuery(node'[n].href), JoinName)
                             /\ ~includesJoin(node'[n].href)
                             /\ parseQuery(node'[n].href) = searchParamsDelete(params, JoinName)
                     /\ \A m \in Nodes :
                           (node[m].share # << >> /\ node[n].href = node[m].share)
                               => /\ node'[n].input = node[m].input
                                  /\ ~includesJoin(node'[n].href)]_vars

\* B has opened the share link of A, whose id is "+&" and whose own URL has
\* the query x=2: B's field holds "+&" and B's URL has the query x=2.
C29_Witness ==
    /\ node["A"].input = <<"+", "&">>
    /\ node["A"].href = <<"x", "=", "2">>
    /\ node["A"].share = <<"x", "=", "2", "&", "j", "o", "i", "n", "=",
                           "%", "2", "B", "%", "2", "6">>
    /\ node["B"].uiState = "initial"
    /\ node["B"].input = <<"+", "&">>
    /\ node["B"].href = <<"x", "=", "2">>
    /\ node["B"].createHidden

\* C30: a scheduled callback of the monitor acts only for a peer that is
\* still monitored.  In a step that begins and ends with p having no ping
\* interval on page n (stopMonitoring(p) has run, or p was never monitored),
\* n stores no new outstanding ping for p and sends p no latency-ping.
C30_CallbacksRecheck ==
    [][\A e \in Ends :
          LET n == e[1]
              p == e[2]
          IN  (p \notin node[n].pingIntervals /\ p \notin node'[n].pingIntervals)
                  => /\ PendingFor(node'[n], p) \subseteq PendingFor(node[n], p)
                     /\ \A i \in 1..Len(wire'[e]) :
                           IsType(wire'[e][i], "latency-ping")
                               => \E j \in 1..Len(wire[e]) : wire[e][j] = wire'[e][i]]_vars

\* C31: when stopMonitoring(p) of the getStats monitor has run while
\* updateLatencyStats(p) awaits getStats(), the callback that resumes writes
\* no reading for p: p has no history afterwards.  (A callback is suspended
\* while its getStats() count is positive; with the call and the interval of
\* p gone, handlePeerDisconnection ran after the callback read the call.)
C31_NoSampleAfterStop ==
    [][\A n \in Nodes : \A p \in Nodes :
          (/\ Has(node[n].getStats, p)
           /\ node'[n].getStats[p] < node[n].getStats[p]
           /\ p \notin node[n].latIntervals
           /\ p \notin node[n].calls)
              => ~Has(node'[n].latencyHistory, p)]_vars

\* Page n's connection to p delivers a latency-pong whose ping is pending:
\* the step in which processPong accepts a sample.
AcceptsPong(n, p) ==
    /\ dc[<<n, p>>] = "open" /\ dc'[<<n, p>>] = "open"
    /\ timers[<<n, p>>].listeners >= 1
    /\ wire[<<p, n>>] # << >>
    /\ wire'[<<p, n>>] = Tail(wire[<<p, n>>])
    /\ IsType(Head(wire[<<p, n>>]), "latency-pong")
    /\ Has(node[n].pendingPings, Head(wire[<<p, n>>]).pingId)

\* C32: the history of p is the last min(k, historyLength) of the k samples
\* accepted since monitoring of p started, in the order of their arrival.
\* As a step property: an accepted pong appends one sample to the history
\* and, beyond historyLength, drops the oldest; no other step changes a
\* history except to start it empty or to delete it.
C32_RollingWindow ==
    [][\A e \in Ends :
          LET n  == e[1]
              p  == e[2]
              h  == IF Has(node[n].pingHistory, p) THEN node[n].pingHistory[p] ELSE << >>
              hn == node'[n].pingHistory
          IN  IF AcceptsPong(n, p)
              THEN /\ Has(hn, p)
                   /\ Len(hn[p]) = (IF Len(h) < historyLength THEN Len(h) + 1 ELSE historyLength)
                   /\ SubSeq(hn[p], 1, Len(hn[p]) - 1) = SubSeq(h, Len(h) - Len(hn[p]) + 2, Len(h))
                   /\ hn[p][Len(hn[p])] \in budget.rtts
              ELSE Has(hn, p) => (hn[p] = << >> \/ hn[p] = h)]_vars

\* A has had historyLength + 1 round trips with B, all answered: its history
\* is full and holds samples of both times.
C32_Witness ==
    /\ dc[<<"A", "B">>] = "open"
    /\ pingSeq = historyLength + 1
    /\ PendingFor(node["A"], "B") = {}
    /\ wire[<<"B", "A">>] = << >>
    /\ Has(node["A"].pingHistory, "B")
    /\ Len(node["A"].pingHistory["B"]) = historyLength
    /\ node["A"].pingHistory["B"][1] # node["A"].pingHistory["B"][historyLength]

\* C33: after every accepted pong of p the reading shown for p is recomputed
\* from p's history as it is then: the latency shown is the rounded mean of
\* the history, the jitter shown is the rounded mean of the differences of
\* consecutive samples, and the class shown is getLatencyQuality of these two.
C33_ReadingRecomputed ==
    [][\A e \in Ends :
          LET n == e[1]
              p == e[2]
              s == node'[n]
          IN  AcceptsPong(n, p) =>
                 /\ Has(s.meters, p) /\ s.meters[p].text = "numeric"
                 /\ LET h == s.pingHistory[p]
                        k == Len(h)
                        m == s.meters[p]
                    IN  /\ 2 * k * m.avg - k <= 2 * SumSeq(h)
                        /\ 2 * SumSeq(h) < 2 * k * m.avg + k
                        /\ k = 1 => m.jitter = 0
                        /\ k > 1 => /\ 2 * (k - 1) * m.jitter - (k - 1) <= 2 * JitterSum(h)
                                    /\ 2 * JitterSum(h) < 2 * (k - 1) * m.jitter + (k - 1)
                        /\ m.quality = getLatencyQuality(m.avg, m.jitter)]_vars

\* C34: a latency-ping goes out on a data channel only while the channel is
\* open on the sending page; none is sent before the channel reported open,
\* whether by the interval, the 200 ms timeout, forcePingAll or
\* debugLatencyMonitor.
C34_NoPingBeforeOpen ==
    [][\A e \in Ends :
          \A i \in DOMAIN wire'[e] :
              (IsType(wire'[e][i], "latency-ping") /\ wire'[e][i].pingId > pingSeq)
                  => dc[e] = "open"]_vars

\* forcePingAll has run on A while B's connection was registered but had not
\* reported open: no ping was sent.
C34_Witness ==
    /\ budget.force < MaxForce
    /\ dc[<<"A", "B">>] = "connecting"
    /\ "B" \in node["A"].connections
    /\ "B" \notin node["A"].pingIntervals
    /\ pingSeq = 0
    /\ wire[<<"A", "B">>] = << >>

\* C35: a latency-pong received from p whose ping id is pending for another
\* peer (the ping was sent to that peer, not to p) adds no sample to any
\* history of the page.
C35_PongOfAnotherPeer ==
    [][\A e \in Ends :
          LET n == e[1]
              p == e[2]
              q == wire[<<p, n>>]
          IN  (/\ dc[e] = "open" /\ dc'[e] = "open"
               /\ q # << >>
               /\ wire'[<<p, n>>] = Tail(q)
               /\ IsType(Head(q), "latency-pong")
               /\ Has(node[n].pendingPings, Head(q).pingId)
               /\ node[n].pendingPings[Head(q).pingId] # p)
                  => node'[n].pingHistory = node[n].pingHistory]_vars

\* C36: when p has connected again and its current data channel is open and
\* registered, the 'close' of p's earlier channel leaves the current channel
\* in the registry and leaves p monitored.
C36_SupersededCloseSpares ==
    [][\A e \in Ends :
          LET n == e[1]
              p == e[2]
          IN  (/\ p \in node[n].superseded
               /\ p \notin node'[n].superseded
               /\ dc[e] = "open" /\ dc'[e] = "open"
               /\ p \in node[n].connections
               /\ p \in node[n].pingIntervals)
                  => /\ p \in node'[n].connections
                     /\ p \in node'[n].pingIntervals]_vars

\* C37: the peer list shows a peer exactly when the registry holds an open
\* data channel for it (isConnectedToPeer), on the side that received the
\* connection and on the side that made it, also after the Disconnect button.
C37_ListAgreesWithRegistry ==
    \A e \in Ends :
        e[2] \in node[e[1]].peerList <=> isConnectedToPeer(e[1], e[2])

\* C38: a page that takes a latency-ping from an open data channel sends
\* exactly one latency-pong for it, also when the monitoring of the peer has
\* been stopped and started again on the same connection.
C38_OnePongPerPing ==
    [][\A e \in Ends :
          LET n == e[1]
              p == e[2]
              q == wire[<<p, n>>]
          IN  (/\ dc[e] = "open" /\ dc'[e] = "open"
               /\ q # << >>
               /\ wire'[<<p, n>>] = Tail(q)
               /\ IsType(Head(q), "latency-ping")
               /\ timers[e].listeners >= 1)
                  => wire'[e] = wire[e] \o <<Pong(Head(q))>>]_vars

\* C39: every peer has at most one running ping interval, and a running
\* interval only while it has a history, whatever startMonitoring,
\* stopMonitoring, sendPing and forcePingAll have done.
C39_OneIntervalPerPeer ==
    \A n \in Nodes : \A p \in Nodes :
        /\ node[n].intervalTimers[p] <= 1
        /\ node[n].intervalTimers[p] = 1 => Has(node[n].pingHistory, p)
        /\ node[n].intervalTimers[p] = 1 <=> p \in node[n].pingIntervals

\* forcePingAll has stopped and started A's monitoring of B on the open
\* connection, which carries two data listeners since: one interval runs,
\* and B has a history.
C39_Witness ==
    /\ budget.force < MaxForce
    /\ dc[<<"A", "B">>] = "open"
    /\ timers[<<"A", "B">>].listeners = 2
    /\ node["A"].intervalTimers["B"] = 1
    /\ Has(node["A"].pingHistory, "B")

\* The user of page n clicks Join Session with p's id in the input, on a
\* page that has a Peer.
ClicksJoin(n, p) ==
    /\ node[n].joinBtn /\ Settled(node[n])
    /\ node[n].peer # "none"
    /\ trim(node[n].input) = <<p>>
    /\ node'[n].uiState = "connecting"

\* The join handler of page n, started by a click, has awaited initPeer and
\* goes on to connectToPeer(p).
JoinGoesOn(n, p) ==
    /\ node[n].pending = "init" /\ node[n].peer = "opening"
    /\ node[n].target = p

\* C40: there is no automatic retry.  A page starts a data connection to p
\* only in the step of a click on Join Session or when the handler of that
\* click goes on after initPeer, and it starts a media call to p only in the
\* 'open' listener of the connection that connectToPeer made; a failed join,
\* an error or a teardown starts neither.
C40_NoAutomaticRetry ==
    [][\A e \in Ends :
          LET n == e[1]
              p == e[2]
          IN  /\ (/\ dc[e] # "connecting" /\ dc'[e] = "connecting"
                  /\ p \in node'[n].outbound)
                     => ClicksJoin(n, p) \/ JoinGoesOn(n, p)
              /\ (mc[e] # "calling" /\ mc'[e] = "calling")
                     => /\ Outbound(n, p)
                        /\ dc[e] = "connecting" /\ dc'[e] = "open"]_vars

\* B's join of A's session has failed with an error on its connection or
\* its call: B shows the error state, the channel is closed, and B has made
\* no other connection.
C40_Witness ==
    /\ node["B"].uiState = "error"
    /\ Settled(node["B"])
    /\ node["B"].outbound = {"A"}
    /\ dc[<<"B", "A">>] = "closed"
    /\ mc[<<"B", "A">>] \in {"none", "closed"}
    /\ budget.errors < MaxErrors

=============================================================================
